---- MODULE Spec2Model ----
(***************************************************************************)
(* Flowchart generator: the statement walk of FlowchartProcessor that      *)
(* builds the node/edge graph, and the post-processing passes (collapse,   *)
(* bypass elimination, edge redirection, pruning) that run on it.          *)
(*                                                                         *)
(* The walk is recursive in the source.  Here every activation of          *)
(* _process_node_list and every handler waiting for a nested walk is a     *)
(* frame of `stack`; one action is one handler call up to the point where  *)
(* it either returns or starts a nested walk, or the rest of a handler     *)
(* after the nested walk returned.                                         *)
(***************************************************************************)
EXTENDS Integers, Sequences, FiniteSets, TLC

VARIABLES
    prog,       \* the parsed source unit handed to process_code
    proc,       \* the FlowchartProcessor object (its fields)
    stack,      \* activations of the statement walk, innermost last
    stage,      \* position of FlowchartGenerator.generate
    config,     \* EnvironmentConfig of the post processor
    collapsed_subgraphs,  \* PostProcessingState.collapsed_subgraphs
    output,     \* what generate returns: declared node ids and edges
    probe       \* argument and result of the last pure call that was applied

vars == <<prog, proc, stack, stage, config, collapsed_subgraphs, output, probe>>

(***************************************************************************)
(* Program constants                                                       *)
(***************************************************************************)
MAX_NODES == 100
MAX_NESTING_DEPTH == 6
MAX_SUBGRAPH_NODES == 25

(***************************************************************************)
(* Python values                                                           *)
(***************************************************************************)
None == "<None>"
False == "<False>"
Truthy(x) == x # None /\ x # False /\ x # ""

EmptyMap == <<>>
Put(f, k, v) == (k :> v) @@ f
Get(f, k, default) == IF k \in DOMAIN f THEN f[k] ELSE default
Values(f) == {f[k] : k \in DOMAIN f}
\* The value of the one element of a singleton: e in Once({e : x \in {v}}) is
\* worked out with x standing for the value v.
Once(S) == CHOOSE v \in S : TRUE
Last(s) == s[Len(s)]
Pop(s) == SubSeq(s, 1, Len(s) - 1)

(***************************************************************************)
(* Syntax tree.  A statement is a record; `k` is its kind, `text` what     *)
(* _get_node_text gives for it (for an if/while: for its test).            *)
(*   call        f()                Expr(Call(Name f))                     *)
(*   mcall       recv.name()        Expr(Call(Attribute(Name recv)))       *)
(*   exit        exit()                                                    *)
(*   print       print(..)          args: the called functions among args  *)
(*   expr, doc   other expression, string constant                         *)
(*   assign      x = <no call>      augassign  x += <..>                   *)
(*   assigncall  recv = name()      name a function or a class             *)
(*   massign     x = recv.name()                                           *)
(*   if, for, while, break, continue, return, returncall (return f()),     *)
(*   returnmcall (return recv.name()), raise, pass, classdef, import       *)
(***************************************************************************)
Stmt(k, name, recv, args, body, orelse, text) ==
    [k |-> k, name |-> name, recv |-> recv, args |-> args,
     body |-> body, orelse |-> orelse, text |-> text]

Simple(k, text) == Stmt(k, "", "", <<>>, <<>>, <<>>, text)
CallS(f) == Stmt("call", f, "", <<>>, <<>>, <<>>, "f()")
MCallS(recv, m) == Stmt("mcall", m, recv, <<>>, <<>>, <<>>, "o.m()")
NewS(c) == Stmt("call", c, "", <<>>, <<>>, <<>>, "C()")
AssignNewS(v, c) == Stmt("assigncall", c, v, <<>>, <<>>, <<>>, "x = C()")
AssignCallS(f) == Stmt("assigncall", f, "", <<>>, <<>>, <<>>, "x = f()")
PrintCallS(fs) == Stmt("print", "", "", fs, <<>>, <<>>, "print(f())")
MAssignS(recv, m) == Stmt("massign", m, recv, <<>>, <<>>, <<>>, "x = o.m()")
ReturnMCallS(recv, m) == Stmt("returnmcall", m, recv, <<>>, <<>>, <<>>, "return o.m()")
ReturnCallS(f) == Stmt("returncall", f, "", <<>>, <<>>, <<>>, "return f()")
IfS(body, orelse) == Stmt("if", "", "", <<>>, body, orelse, "c")
MainGuardS(body) == Stmt("if", "", "", <<>>, body, <<>>, "__name__ == \"__main__\"")
ForS(body) == Stmt("for", "", "", <<>>, body, <<>>, "i in y")
WhileS(body) == Stmt("while", "", "", <<>>, body, <<>>, "c")
ClassDefS(c) == Stmt("classdef", c, "", <<>>, <<>>, <<>>, "")
PassS == Simple("pass", "Pass")
ExprS == Simple("expr", "x")
DocS == Simple("doc", "doc")
ExitS == Simple("exit", "exit()")
PrintS == Simple("print", "print(x)")
AssignS == Simple("assign", "x = 1")
AssignDiffS == Simple("assign", "x = diff")
AugAssignS == Simple("augassign", "x += 1")
BreakS == Simple("break", "break")
ContinueS == Simple("continue", "continue")
ReturnS == Simple("return", "return")
RaiseS == Simple("raise", "Raise E")
ImportS == Simple("import", "import os")

\* A method definition: whether its first parameter is self, and its body.
Method(self, body) == [self |-> self, body |-> body]

(***************************************************************************)
(* Input programs.  function_defs maps a top-level function to its body,   *)
(* class_defs a top-level class to its methods, main is the module body    *)
(* without the function definitions.                                       *)
(***************************************************************************)
Program(main, function_defs, class_defs) ==
    [main |-> main, function_defs |-> function_defs, class_defs |-> class_defs,
     parses |-> TRUE]

\* A source text ast.parse rejects
P_syntax_error == [Program(<<>>, EmptyMap, EmptyMap) EXCEPT !.parses = FALSE]

UnsupportedS == Simple("unsupported", "del x")

\* Straight-line statements, consolidation, import merging, a call with a
\* docstring and a return in the callee.
P_flat ==
    Program(<<ImportS, ImportS, AssignS, AugAssignS, PrintS, AssignDiffS, AssignS,
              ExprS, DocS, PassS, UnsupportedS, CallS("f"), CallS("nofunc"), AssignCallS("nofunc")>>,
            [f |-> <<DocS, PassS, ReturnS, PassS>>],
            EmptyMap)

\* def f(): g(); g()   def g(): f(); x; f()   f()
P_mutual ==
    Program(<<CallS("f"), ExprS, PassS>>,
            [f |-> <<CallS("g"), CallS("g")>>,
             g |-> <<CallS("f"), ExprS, CallS("f")>>],
            EmptyMap)

\* Direct recursion in the three statement positions, and calls inside print.
P_self ==
    Program(<<AssignCallS("f"), PrintCallS(<<"h", "nofunc", "h">>), CallS("r")>>,
            [f |-> <<CallS("f"), AssignCallS("f"), ReturnCallS("g"), ReturnCallS("f"), PassS>>,
             g |-> <<PassS>>,
             h |-> <<PrintCallS(<<"h">>)>>,
             r |-> <<AssignCallS("r")>>],
            EmptyMap)

\* Methods: constructor, self call, static call, instance method on the
\* class, unknown receiver, unknown method, return of a method call.
C_A ==
    [__init__ |-> Method(TRUE, <<PassS>>),
     m |-> Method(TRUE, <<MCallS("self", "m"), MCallS("self", "n"), ReturnS>>),
     n |-> Method(TRUE, <<ReturnMCallS("self", "m")>>),
     s |-> Method(FALSE, <<CallS("f"), PassS>>)]

P_methods ==
    Program(<<ClassDefS("A"), AssignNewS("a", "A"), MCallS("a", "m"), MCallS("A", "s"),
              MCallS("A", "m"), MAssignS("a", "n"), MAssignS("A", "m"), MAssignS("b", "m"),
              MCallS("a", "zz"), NewS("A"), MCallS("a", "s")>>,
            [f |-> <<MCallS("a", "s"), ReturnMCallS("a", "zz")>>],
            [A |-> C_A])

\* A class without constructor, a method whose body is only a docstring, and
\* an assignment from a method the class does not have.
P_docmethod ==
    Program(<<ClassDefS("A"), NewS("A"), AssignNewS("a", "A"), MCallS("a", "m"), PrintS,
              MAssignS("a", "zz"), PassS>>,
            EmptyMap,
            [A |-> [m |-> Method(TRUE, <<DocS>>)]])

\* Branches and loops.
P_control ==
    Program(<<IfS(<<PassS>>, <<RaiseS>>), IfS(<<RaiseS>>, <<>>), IfS(<<PassS>>, <<>>),
              ForS(<<IfS(<<BreakS>>, <<>>), PassS>>), WhileS(<<ContinueS>>),
              WhileS(<<ExprS>>), ForS(<<ExitS>>), BreakS>>,
            EmptyMap, EmptyMap)

P_guard ==
    Program(<<CallS("f"), MainGuardS(<<ReturnS>>), PassS>>,
            [f |-> <<IfS(<<ReturnS>>, <<ContinueS>>), PassS>>],
            EmptyMap)

\* def f(): g(); x   def g(): pass; x   f(); g(); x
\* g is called from f and from the module body.
P_shared ==
    Program(<<CallS("f"), CallS("g"), ExprS>>,
            [f |-> <<CallS("g"), ExprS>>,
             g |-> <<PassS, ExprS>>],
            EmptyMap)

\* class A: def m(self): pass
\* def f(): g(); g()   def g(): f(); x; f()
\* f(); a = A(); a.m(); a.m(); a.zz(); pass
\* The calls of f use up the node budget before the method calls.
P_budget ==
    Program(<<ClassDefS("A"), CallS("f"), AssignNewS("a", "A"), MCallS("a", "m"), MCallS("a", "m"),
              MCallS("a", "zz"), PassS>>,
            [f |-> <<CallS("g"), CallS("g")>>,
             g |-> <<CallS("f"), ExprS, CallS("f")>>],
            [A |-> [m |-> Method(TRUE, <<PassS>>)]])

\* def f(): pass
\* x = 1; x = nofunc(); print(x); print(f()); x = 1; x = f(); x += 1; x = 1
\* Statements with a call in their value right after a print or assignment.
P_merge ==
    Program(<<AssignS, AssignCallS("nofunc"), PrintS, PrintCallS(<<"f">>), AssignS,
              AssignCallS("f"), AugAssignS, AssignS>>,
            [f |-> <<PassS>>],
            EmptyMap)

\* def f1(): pass   def f(): pass
\* f1(); pass (seven times); f()
\* The call of f1 gets the id "call_f1" + "3", the call of f the id
\* "call_f" + "13".
P_digits ==
    Program(<<CallS("f1"), PassS, PassS, PassS, PassS, PassS, PassS, PassS, CallS("f")>>,
            [f1 |-> <<PassS>>, f |-> <<PassS>>],
            EmptyMap)

\* def f():
\*     while c:
\*         if c: break
\*         pass
\*     return
\* for i in y: f(); pass
\* A loop in a function that is spliced into the body of a loop.
P_loopcall ==
    Program(<<ForS(<<CallS("f"), PassS>>)>>,
            [f |-> <<WhileS(<<IfS(<<BreakS>>, <<>>), PassS>>), ReturnS>>],
            EmptyMap)

\* generate's context: entry_type, entry_name, entry_class
Context(entry_type, entry_name, entry_class) ==
    [entry_type |-> entry_type, entry_name |-> entry_name, entry_class |-> entry_class]

FileMode == Context(None, None, None)

\* The source units with the context they are generated under.  The entry
\* point units are what the entry processor hands on: the definitions and
\* one line that calls the entry point.
Input(program, context) == [prog |-> program, context |-> context]

\* process_function: the definitions and "f()"
P_entry_function ==
    Program(<<CallS("f")>>,
            [f |-> <<AssignS, PrintS, ExprS, PassS>>, g |-> <<PassS>>],
            EmptyMap)

C_B ==
    [__init__ |-> Method(TRUE, <<PrintS, ExprS, PassS, MCallS("self", "m")>>),
     m |-> Method(TRUE, <<PrintS, ExprS, PassS, ExprS>>)]

\* process_class: the definitions and "B()"
P_entry_class == Program(<<ClassDefS("B"), NewS("B")>>, EmptyMap, [B |-> C_B])

\* process_class_method: the definitions and "B.m()"
P_entry_method == Program(<<ClassDefS("B"), MCallS("B", "m")>>, EmptyMap, [B |-> C_B])

\* class A: def m(self): pass
\* class B: def __init__(self): B.m(); x = B.m(); A.m()   def m(self): pass
\* process_class: the definitions and "B()"
P_entry_receivers ==
    Program(<<ClassDefS("A"), ClassDefS("B"), NewS("B")>>,
            EmptyMap,
            [A |-> [m |-> Method(TRUE, <<PassS>>)],
             B |-> [__init__ |-> Method(TRUE, <<MCallS("B", "m"), MAssignS("B", "m"),
                                                MCallS("A", "m")>>),
                    m |-> Method(TRUE, <<PassS>>)]])

Inputs ==
    {Input(P_flat, FileMode), Input(P_mutual, FileMode), Input(P_self, FileMode),
     Input(P_methods, FileMode), Input(P_docmethod, FileMode),
     Input(P_control, FileMode), Input(P_guard, FileMode), Input(P_shared, FileMode),
     Input(P_budget, FileMode), Input(P_merge, FileMode), Input(P_digits, FileMode),
     Input(P_loopcall, FileMode),
     Input(P_syntax_error, FileMode),
     Input(P_entry_function, Context("function", "f", None)),
     Input(P_entry_class, Context("class", None, "B")),
     Input(P_entry_receivers, Context("class", None, "B")),
     Input(P_entry_method, Context("class", "m", "B")),
     Input(P_entry_method, Context("function", "m", "B"))}

(***************************************************************************)
(* FlowchartProcessor: construction                                        *)
(***************************************************************************)
NewProcessor(sequential_flow, context) ==
    [ nodes |-> EmptyMap,
      key_order |-> <<>>,
      connections |-> <<>>,
      node_scopes |-> EmptyMap,
      scope_children |-> EmptyMap,
      node_counter |-> 0,
      loop_stack |-> <<>>,
      call_stack |-> <<>>,
      end_id |-> None,
      next_node_label |-> None,
      variable_types |-> EmptyMap,
      function_start_nodes |-> EmptyMap,
      current_nesting_depth |-> 0,
      method_exit_nodes |-> EmptyMap,
      method_subgraphs |-> EmptyMap,
      method_calling_nodes |-> EmptyMap,
      method_last_nodes |-> EmptyMap,
      _first_import_rendered |-> FALSE,
      merge_common_nodes |-> TRUE,
      sequential_flow |-> sequential_flow,
      context |-> context ]

(***************************************************************************)
(* Node management                                                         *)
(***************************************************************************)
\* self.node_counter += 1; return f"{prefix}{self.node_counter}"
_generate_id(processor, prefix) ==
    Once({(
    [p |-> [p EXCEPT !.node_counter = @ + 1],
     id |-> prefix \o ToString(p.node_counter + 1)]
    ) : p \in {processor}})

SHAPES ==
    [ start |-> <<"[", "]">>,
      end |-> <<"[", "]">>,
      condition |-> <<"{\"", "\"}">>,
      loop |-> <<"{{\"", "\"}}">>,
      merge |-> <<"{{", "}}">>,
      print |-> <<"[\"", "\"]">>,
      function_call |-> <<"[[\"", "\"]]">>,
      import |-> <<"[/\"", "\"\\]">>,
      exit |-> <<"[/\"", "\"\\]">>,
      exception |-> <<"[[\"", "\"]]">> ]

\* The default of _add_node's shape parameter
DefaultShape == <<"[\"", "\"]">>

\* A node definition f'{node_id}{shape[0]}{text}{shape[1]}': the id, the two
\* brackets and the text, which is a sequence of lines (consolidation joins
\* lines with "\n").
NodeDef(node_id, shape, text) == [id |-> node_id, shape |-> shape, text |-> text]

\* key_order is the insertion order of the keys of the node_scopes dict (during
\* the build also that of nodes, which is written together with it).
KeyOrder(p, node_id) ==
    IF node_id \in DOMAIN p.node_scopes THEN p.key_order ELSE Append(p.key_order, node_id)

_add_node_unguarded(p, node_id, text, shape, scope) ==
    [p EXCEPT !.nodes = Put(@, node_id, NodeDef(node_id, shape, <<text>>)),
              !.node_scopes = Put(@, node_id, scope),
              !.key_order = KeyOrder(p, node_id)]

_add_node(processor, node_id, text, shape, scope) ==
    Once({(
    IF Cardinality(DOMAIN p.nodes) >= MAX_NODES
    THEN p
    ELSE [p EXCEPT !.nodes = Put(@, node_id, NodeDef(node_id, shape, <<text>>)),
                   !.node_scopes = Put(@, node_id, scope),
                   !.key_order = KeyOrder(p, node_id)]
    ) : p \in {processor}})

\* The value _add_node returns for the call that turns p into _add_node(p, ...).
_add_node_result(p) == Cardinality(DOMAIN p.nodes) < MAX_NODES

\* A connection string, e.g. '    {from} <-->|{label}| {to}': the leading
\* blanks, the ids, the arrow as written and the label ("" when there is no
\* |label| part).
FormatConn(indent, from_id, arrow, label, to_id) ==
    [indent |-> indent, from |-> from_id, arrow |-> arrow, label |-> label, to |-> to_id]

Arrow(bidirectional) == IF bidirectional THEN "<-->" ELSE "-->"

_add_connection(processor, from_id, to_id, label, bidirectional) ==
    Once({(
    IF from_id = None \/ to_id = None
    THEN p
    ELSE LET take == label = "" /\ Truthy(p.next_node_label)
             lab == IF take THEN p.next_node_label ELSE label
             p1 == IF take THEN [p EXCEPT !.next_node_label = None] ELSE p
             bidir == IF p.sequential_flow THEN FALSE ELSE bidirectional
         IN [p1 EXCEPT !.connections = Append(@, FormatConn(4, from_id, Arrow(bidir), lab, to_id))]
    ) : p \in {processor}})

_is_recursive_call(func_name, current_scope) == func_name = current_scope

_get_function_start_node(p, func_name) == Get(p.function_start_nodes, func_name, None)

\* No nesting ceiling: a splice is never refused.
_nesting_limit_never_exceeded(p) == FALSE

_is_nesting_limit_exceeded(p) == p.current_nesting_depth >= MAX_NESTING_DEPTH

MaxNodeLimitLabel == "Max node limit 100 exceeded"

_handle_max_nodes_exceeded(p, current_id) ==
    IF Truthy(current_id) /\ Truthy(p.end_id)
    THEN _add_connection(p, current_id, p.end_id, MaxNodeLimitLabel, FALSE)
    ELSE p

AddChild(children, scope, child) ==
    Put(children, scope, Get(children, scope, {}) \cup {child})

(***************************************************************************)
(* The walk: frames                                                        *)
(***************************************************************************)
Frame(kind, stmts, idx, cur, scope, st, a, b, ret) ==
    [kind |-> kind, stmts |-> stmts, idx |-> idx, cur |-> cur, scope |-> scope,
     st |-> st, a |-> a, b |-> b, ret |-> ret]

\* An activation of _process_node_list(nodes, prev_id, scope)
ListFrame(nodes, prev_id, scope) == Frame("list", nodes, 1, prev_id, scope, PassS, None, None, "")
\* The loop of _process_main_flow(start_id, main_flow_nodes)
MainFrame(nodes, start_id) == Frame("main", nodes, 1, start_id, "main", PassS, start_id, None, "")
\* A handler waiting for the walk it started
Cont(kind, st, prev_id, scope, a, b, ret) == Frame(kind, <<>>, 1, prev_id, scope, st, a, b, ret)

Top == Last(stack)
Below == stack[Len(stack) - 1]

\* Entry of _process_node_list: the label for the first edge and the
\* function start node used by the recursion edges.
EnterList(processor, prev_id, scope, next_node_label) ==
    Once({(
    LET p1 == IF next_node_label # None
              THEN [p EXCEPT !.next_node_label = next_node_label] ELSE p
    IN IF Truthy(scope) /\ scope \in DOMAIN prog.function_defs
          /\ prev_id \notin Values(p1.function_start_nodes)
       THEN [p1 EXCEPT !.function_start_nodes = Put(@, scope, prev_id)]
       ELSE p1
    ) : p \in {processor}})

\* What a handler call comes to: it returned `id`, or it started a walk
\* (push = its own frame and the frame of the nested statement list).
Ret(p, id) == [p |-> p, id |-> id, push |-> <<>>]
Walk(p, cont, nodes, prev_id, scope, next_node_label) ==
    [p |-> EnterList(p, prev_id, scope, next_node_label), id |-> None,
     push |-> <<cont, ListFrame(nodes, prev_id, scope)>>]

\* The loop body of _process_node_list after handler.handle returned new_id,
\* and that of _process_main_flow.
Advance(p, fr, new_id) ==
    LET stop == [fr EXCEPT !.idx = Len(fr.stmts) + 1]
        next == [fr EXCEPT !.idx = @ + 1]
    IN IF fr.kind = "main"
       THEN [p |-> p,
             fr |-> IF new_id = False \/ new_id = None
                    THEN [stop EXCEPT !.cur = new_id]
                    ELSE [next EXCEPT !.cur = new_id]]
       ELSE LET p1 == [p EXCEPT !.next_node_label = None]
            IN IF fr.cur = new_id THEN [p |-> p1, fr |-> next]
               ELSE IF new_id = False
                    THEN [p |-> _handle_max_nodes_exceeded(p1, fr.cur), fr |-> stop]
               ELSE IF new_id = None THEN [p |-> p1, fr |-> stop]
               ELSE [p |-> p1, fr |-> [next EXCEPT !.cur = new_id]]

ListDone(fr) == fr.kind = "list" /\ (fr.idx > Len(fr.stmts) \/ fr.cur = None)
MainDone(fr) == fr.kind = "main" /\ fr.idx > Len(fr.stmts)

\* A statement of the innermost list is about to be handled.
AtStmt ==
    /\ stage = "build"
    /\ stack # <<>>
    /\ Top.kind \in {"list", "main"}
    /\ Top.idx <= Len(Top.stmts)
    /\ Top.cur # None

Node == Top.stmts[Top.idx]

\* The handler called at the current statement came to outcome o.
Apply(o) ==
    IF o.push = <<>>
    THEN \E adv \in {Advance(o.p, Top, o.id)} :
            /\ proc' = adv.p
            /\ stack' = [stack EXCEPT ![Len(stack)] = adv.fr]
    ELSE /\ proc' = o.p
         /\ stack' = stack \o o.push

\* The nested walk of the handler frame `kind` has returned.
Returned(kind) ==
    /\ stage = "build"
    /\ Len(stack) >= 3
    /\ ListDone(Top)
    /\ Below.kind = kind

\* The rest of that handler came to outcome o.
Resume(o) ==
    LET base == SubSeq(stack, 1, Len(stack) - 2)
    IN IF o.push = <<>>
       THEN \E adv \in {Advance(o.p, Last(base), o.id)} :
               /\ proc' = adv.p
               /\ stack' = [base EXCEPT ![Len(base)] = adv.fr]
       ELSE /\ proc' = o.p
            /\ stack' = base \o o.push

(***************************************************************************)
(* Consolidation of print/assignment nodes (NodeHandler helpers)           *)
(***************************************************************************)
\* Which of the substrings the helpers search for occur in a line of text.
TextFeatures(line) ==
    CASE line = "x = 1" -> {"="}
      [] line = "x = diff" -> {"=", "if"}
      [] line = "x += 1" -> {"=", "+="}
      [] line = "print(x)" -> {"print(", "(", ")"}
      [] line = "print(f())" -> {"print(", "(", ")"}
      [] line = "x = f()" -> {"=", "(", ")"}
      [] line = "x = C()" -> {"=", "(", ")"}
      [] line = "f()" -> {"(", ")"}
      [] line = "exit()" -> {"(", ")"}
      [] line = "return" -> {"return"}
      [] line = "return f()" -> {"return", "(", ")"}
      [] OTHER -> {}

\* Id prefixes that contain one of the control-flow keywords.
KeywordPrefixes == {"if_cond", "for_loop", "while_loop", "return"}

IdHasKeyword(p, node_id) ==
    \E pre \in KeywordPrefixes, n \in 1..p.node_counter : node_id = pre \o ToString(n)

DefFeatures(node_def) == UNION {TextFeatures(node_def.text[i]) : i \in DOMAIN node_def.text}

_has_function_call(node_def) == {"(", ")"} \subseteq DefFeatures(node_def)

_is_simple_assignment(node_def) ==
    "=" \in DefFeatures(node_def) /\ ~_has_function_call(node_def)

_should_consolidate_with_previous(p, prev_id, scope) ==
    IF ~p.merge_common_nodes THEN FALSE
    ELSE IF ~Truthy(prev_id) \/ prev_id \notin DOMAIN p.nodes THEN FALSE
    ELSE LET prev_node_def == p.nodes[prev_id]
         IN IF Get(p.node_scopes, prev_id, None) # scope THEN FALSE
            ELSE IF IdHasKeyword(p, prev_id)
                    \/ DefFeatures(prev_node_def) \cap {"if", "for", "while", "Call:", "return"} # {}
                 THEN FALSE
            ELSE IF "print(" \in DefFeatures(prev_node_def) THEN TRUE
            ELSE IF _is_simple_assignment(prev_node_def) THEN TRUE
            ELSE {"=", "+="} \subseteq DefFeatures(prev_node_def)

\* nodes[prev_id] = f'{prev_id}["{prev_content}\n{current_text}"]'
_consolidate_with_previous(p, node, prev_id) ==
    [p EXCEPT !.nodes[prev_id] =
        NodeDef(prev_id, DefaultShape, Append(p.nodes[prev_id].text, node.text))]

(***************************************************************************)
(* Handlers that add one node                                              *)
(***************************************************************************)
\* _generate_id, _add_node, _add_connection(prev_id, id): the common opening
\* of the handlers.  Gives the processor and the new id.
NewNode(processor, prefix, text, shape, scope, prev_id) ==
    Once({(
    LET g == _generate_id(p, prefix)
        p1 == _add_node(g.p, g.id, text, shape, scope)
    IN [p |-> _add_connection(p1, prev_id, g.id, "", FALSE), id |-> g.id]
    ) : p \in {processor}})

PassHandler(p, node, prev_id, scope) ==
    LET n == NewNode(p, "pass", "Pass", SHAPES.print, scope, prev_id)
    IN Ret(n.p, n.id)

UnsupportedHandler(p, node, prev_id, scope) ==
    LET n == NewNode(p, "unsupported", "Unsupported Node", SHAPES.import, scope, prev_id)
    IN Ret(n.p, n.id)

RaiseHandler(p, node, prev_id, scope) ==
    LET n == NewNode(p, "raise", node.text, SHAPES.exception, scope, prev_id)
    IN Ret(n.p, None)

ExitFunctionHandler(p, node, prev_id, scope) ==
    LET n == NewNode(p, "exit_function", "Exit", SHAPES.exit, scope, prev_id)
    IN Ret(n.p, None)

BreakHandler(p, node, prev_id, scope) ==
    Ret(IF p.loop_stack # <<>>
        THEN _add_connection(p, prev_id, Last(p.loop_stack).exit, "", FALSE)
        ELSE p, None)

ContinueHandler(p, node, prev_id, scope) ==
    Ret(IF p.loop_stack # <<>>
        THEN _add_connection(p, prev_id, Last(p.loop_stack).start, "", FALSE)
        ELSE p, None)

AugAssignHandler(p, node, prev_id, scope) ==
    IF _should_consolidate_with_previous(p, prev_id, scope)
    THEN Ret(_consolidate_with_previous(p, node, prev_id), prev_id)
    ELSE LET \* f"{target} {op_symbol} {value}": the operator without its "="
             text == IF node.text = "x += 1" THEN "x + 1" ELSE node.text
             n == NewNode(p, "augassign", text, DefaultShape, scope, prev_id)
         IN Ret(n.p, n.id)

\* nodes[prev_id] = current_text.replace('"\]', '\n..."\]')
ImportMore(node_def) ==
    IF node_def.shape[2] = "\"\\]" /\ "..." \notin {node_def.text[i] : i \in DOMAIN node_def.text}
    THEN [node_def EXCEPT !.text = Append(@, "...")]
    ELSE node_def

ImportHandler(p, node, prev_id, scope) ==
    IF p._first_import_rendered
    THEN Ret(IF prev_id \in DOMAIN p.nodes
             THEN [p EXCEPT !.nodes[prev_id] = ImportMore(@)]
             ELSE p, prev_id)
    ELSE LET n == NewNode(p, "import", node.text, SHAPES.import, scope, prev_id)
         IN Ret([n.p EXCEPT !._first_import_rendered = TRUE], n.id)

\* A dummy node keeps the class scope known; the flow is not touched.
ClassHandler(p, node, prev_id, scope) ==
    LET g == _generate_id(p, "class_dummy")
    IN Ret(_add_node(g.p, g.id, " ", DefaultShape, "class_" \o node.name), prev_id)

(***************************************************************************)
(* Scopes                                                                  *)
(***************************************************************************)
ClassScope(class_name) == "class_" \o class_name
MethodScope(class_name, method_name) == "class_" \o class_name \o "_" \o method_name
MethodKey(class_name, method_name) == class_name \o "." \o method_name

ClassNames == DOMAIN prog.class_defs
MethodNames == UNION {DOMAIN prog.class_defs[c] : c \in ClassNames}

\* scope.startswith("class_") and "_" in scope[6:]
IsMethodScope(scope) ==
    \E c \in ClassNames, m \in MethodNames : scope = MethodScope(c, m)

\* scope.split("_")[1] of a scope that starts with "class_", else None
ScopeClassPart(scope) ==
    IF \E c \in ClassNames : scope = ClassScope(c) \/ \E m \in MethodNames : scope = MethodScope(c, m)
    THEN CHOOSE c \in ClassNames :
            scope = ClassScope(c) \/ \E m \in MethodNames : scope = MethodScope(c, m)
    ELSE None

(***************************************************************************)
(* Plain function calls: ExprHandler and AssignHandler                     *)
(***************************************************************************)
\* call_stack.append(end_call_id); current_nesting_depth += 1
EnterCall(processor, end_call_id) ==
    Once({(
    [p EXCEPT !.call_stack = Append(@, end_call_id),
              !.current_nesting_depth = @ + 1]
    ) : p \in {processor}})

\* The exit of a splice without "current_nesting_depth -= 1".
LeaveCallKeepDepth(p, body_end_id, end_call_id) ==
    LET p1 == [p EXCEPT !.call_stack = Pop(@)]
    IN IF Truthy(body_end_id)
       THEN _add_connection(p1, body_end_id, end_call_id, "", FALSE)
       ELSE p1

\* current_nesting_depth -= 1; call_stack.pop();
\* if body_end_id: _add_connection(body_end_id, end_call_id)
LeaveCall(processor, body_end_id, end_call_id) ==
    Once({(
    LET p1 == [p EXCEPT !.current_nesting_depth = @ - 1, !.call_stack = Pop(@)]
    IN IF Truthy(body_end_id)
       THEN _add_connection(p1, body_end_id, end_call_id, "", FALSE)
       ELSE p1
    ) : p \in {processor}})

\* The edge back to the start of the function, labelled "Recursion".
RecursionEdge(p, from_id, func_name) ==
    LET function_start == _get_function_start_node(p, func_name)
    IN IF Truthy(function_start)
       THEN _add_connection(p, from_id, function_start, "Recursion", FALSE)
       ELSE p

\* ExprHandler.handle, "Handle other expressions"
ExprOther(p, node, prev_id, scope) ==
    LET g == _generate_id(p, "expr")
        shape == IF node.k = "call" THEN SHAPES.function_call ELSE SHAPES.print
    IN IF ~_add_node_result(g.p)
       THEN Ret(g.p, False)
       ELSE Ret(_add_connection(_add_node(g.p, g.id, node.text, shape, scope),
                                prev_id, g.id, "", FALSE), g.id)

\* ExprHandler.handle for a call of a name that is no class, print or exit.
ExprCall(p, node, prev_id, scope) ==
    LET func_name == node.name
    IN IF func_name \notin DOMAIN prog.function_defs
       THEN ExprOther(p, node, prev_id, scope)
       ELSE IF _is_nesting_limit_exceeded(p)
       THEN LET n == NewNode(p, "nesting_limit_" \o func_name, "Call: (Max nesting depth exceeded)",
                             SHAPES.function_call, scope, prev_id)
            IN Ret(n.p, n.id)
       ELSE IF _is_recursive_call(func_name, scope)
       THEN LET n == NewNode(p, "recursive_call_" \o func_name, "Recursive Call: " \o node.text,
                             SHAPES.function_call, scope, prev_id)
            IN Ret(RecursionEdge(n.p, n.id, func_name), n.id)
       ELSE LET p0 == [p EXCEPT !.scope_children = AddChild(@, scope, func_name)]
                n == NewNode(p0, "call_" \o func_name, "Call: " \o node.text,
                             SHAPES.function_call, scope, prev_id)
                g == _generate_id(n.p, "end_call")
                p1 == _add_node(g.p, g.id, " ", SHAPES.merge, None)
            IN Walk(EnterCall(p1, g.id),
                    Cont("call_body", node, prev_id, scope, g.id, None, ""),
                    prog.function_defs[func_name], n.id, func_name, None)

\* AssignHandler.handle for x = f() with f a known function.
AssignCall(p, node, prev_id, scope) ==
    LET func_name == node.name
    IN IF _is_nesting_limit_exceeded(p)
       THEN LET n == NewNode(p, "nesting_limit_assign", node.text, DefaultShape, scope, prev_id)
            IN Ret(n.p, n.id)
       ELSE IF _is_recursive_call(func_name, scope)
       THEN LET n == NewNode(p, "recursive_assign", node.text, DefaultShape, scope, prev_id)
            IN Ret(RecursionEdge(n.p, n.id, func_name), n.id)
       ELSE LET n == NewNode(p, "assign", node.text, DefaultShape, scope, prev_id)
                p0 == [n.p EXCEPT !.scope_children = AddChild(@, scope, func_name)]
                g == _generate_id(p0, "end_call")
                p1 == _add_node(g.p, g.id, " ", SHAPES.merge, None)
            IN Walk(EnterCall(p1, g.id),
                    Cont("call_body", node, prev_id, scope, g.id, None, ""),
                    prog.function_defs[func_name], n.id, func_name, None)

\* AssignHandler.handle, "Regular assignment"
AssignRegular(p, node, prev_id, scope) ==
    IF _should_consolidate_with_previous(p, prev_id, scope)
    THEN Ret(_consolidate_with_previous(p, node, prev_id), prev_id)
    ELSE LET n == NewNode(p, "assign", node.text, DefaultShape, scope, prev_id)
         IN Ret(n.p, n.id)

\* The rest of both handlers once the function body has been walked.
CallBodyDone(p, k, body_end_id) == Ret(LeaveCall(p, body_end_id, k.a), k.a)

(***************************************************************************)
(* PrintHandler                                                            *)
(***************************************************************************)
\* The loop of _handle_print_with_function_calls over the calls that are left
\* (calls[i..]); call_counter counts the instances per function.
RECURSIVE PrintCalls(_, _, _, _, _, _)
PrintCalls(p, node, i, current_id, scope, call_counter) ==
    IF i > Len(node.args) THEN Ret(p, current_id)
    ELSE LET func_name == node.args[i]
         IN IF func_name \notin DOMAIN prog.function_defs
            THEN PrintCalls(p, node, i + 1, current_id, scope, call_counter)
            ELSE LET call_instance == Get(call_counter, func_name, 0) + 1
                     counter == Put(call_counter, func_name, call_instance)
                     suffix == func_name \o "_" \o ToString(call_instance)
                 IN IF _is_nesting_limit_exceeded(p)
                    THEN LET n == NewNode(p, "nesting_limit_" \o suffix,
                                          "Call: (Max nesting depth exceeded)",
                                          SHAPES.function_call, scope, current_id)
                         IN PrintCalls(n.p, node, i + 1, n.id, scope, counter)
                    ELSE LET n == NewNode(p, "call_" \o suffix, "Call: f()",
                                          SHAPES.function_call, scope, current_id)
                             unique_scope == func_name \o "_call_" \o ToString(call_instance)
                             g == _generate_id(n.p, "end_call")
                             p1 == _add_node(g.p, g.id, " ", SHAPES.merge, None)
                         IN Walk(EnterCall(p1, g.id),
                                 [Cont("print_body", node, current_id, scope, g.id, counter, "")
                                     EXCEPT !.idx = i],
                                 prog.function_defs[func_name], n.id, unique_scope, None)

PrintHandler(p, node, prev_id, scope) ==
    IF _should_consolidate_with_previous(p, prev_id, scope)
    THEN Ret(_consolidate_with_previous(p, node, prev_id), prev_id)
    ELSE LET n == NewNode(p, "print", node.text, SHAPES.print, scope, prev_id)
         IN IF node.args # <<>>
            THEN PrintCalls(n.p, node, 1, n.id, scope, EmptyMap)
            ELSE Ret(n.p, n.id)

\* The rest of the loop after the body of the call at position k.idx.
PrintBodyDone(p, k, body_end_id) ==
    PrintCalls(LeaveCall(p, body_end_id, k.a), k.st, k.idx + 1, k.a, k.scope, k.b)

(***************************************************************************)
(* IfHandler, ForHandler, WhileHandler                                     *)
(***************************************************************************)
IfHandler(p, node, prev_id, scope) ==
    LET n == NewNode(p, "if_cond", "if " \o node.text, SHAPES.condition, scope, prev_id)
    IN Walk(n.p, Cont("if_true", node, prev_id, scope, n.id, None, ""),
            node.body, n.id, scope, "True")

\* not _filter_main_guard(node)
IsMainGuard(node) == node.text = "__name__ == \"__main__\""

NewMerge(p, prefix) ==
    LET g == _generate_id(p, prefix)
    IN [p |-> _add_node(g.p, g.id, " ", SHAPES.merge, None), id |-> g.id]

IfTrueDone(p, k, true_path_end) ==
    LET cond_id == k.a
    IN IF k.st.orelse # <<>>
       THEN LET m == NewMerge(p, "merge")
                p1 == IF Truthy(true_path_end)
                      THEN _add_connection(m.p, true_path_end, m.id, "", FALSE) ELSE m.p
            IN Walk(p1, Cont("if_false", k.st, k.cur, k.scope, cond_id, m.id, ""),
                    k.st.orelse, cond_id, k.scope, "False")
       ELSE IF IsMainGuard(k.st)
       THEN LET g == _generate_id(p, "end")
                p1 == _add_node(g.p, g.id, "End", SHAPES.end, None)
                p2 == IF Truthy(true_path_end)
                      THEN _add_connection(p1, true_path_end, g.id, "", FALSE) ELSE p1
            IN Ret(_add_connection(p2, cond_id, p2.end_id, "False", FALSE), None)
       ELSE IF Truthy(true_path_end) /\ true_path_end # cond_id
       THEN LET m == NewMerge(p, "merge")
                p1 == _add_connection(m.p, true_path_end, m.id, "", FALSE)
            IN Ret(_add_connection(p1, cond_id, m.id, "False", FALSE), m.id)
       ELSE IF Truthy(true_path_end)
       THEN LET m == NewMerge(p, "merge")
            IN Ret(_add_connection(m.p, cond_id, m.id, "False", FALSE), m.id)
       ELSE Ret(p, cond_id)

IfFalseDone(p, k, false_path_end) ==
    Ret(IF Truthy(false_path_end)
        THEN _add_connection(p, false_path_end, k.b, "", FALSE) ELSE p, k.b)

PushLoop(p, loop_cond_id, loop_exit_id) ==
    [p EXCEPT !.loop_stack = Append(@, [start |-> loop_cond_id, exit |-> loop_exit_id])]

ForHandler(p, node, prev_id, scope) ==
    LET n == NewNode(p, "for_loop", "for " \o node.text, SHAPES.loop, scope, prev_id)
        x == NewMerge(n.p, "loop_exit")
    IN Walk(PushLoop(x.p, n.id, x.id), Cont("for_body", node, prev_id, scope, n.id, x.id, ""),
            node.body, n.id, scope, "Next Iteration")

\* The rest of the for handler without "loop_stack.pop()".
ForBodyDoneKeepLoop(p, k, body_end_id) ==
    LET loop_cond_id == k.a
        p1 == IF Truthy(body_end_id) /\ body_end_id # loop_cond_id
              THEN _add_connection(p, body_end_id, loop_cond_id, "Next Iteration", FALSE)
              ELSE p
    IN Ret(_add_connection(p1, loop_cond_id, k.b, "Done", FALSE), k.b)

ForBodyDone(p, k, body_end_id) ==
    LET loop_cond_id == k.a
        p1 == IF Truthy(body_end_id) /\ body_end_id # loop_cond_id
              THEN _add_connection(p, body_end_id, loop_cond_id, "Next Iteration", FALSE)
              ELSE p
        p2 == [p1 EXCEPT !.loop_stack = Pop(@)]
    IN Ret(_add_connection(p2, loop_cond_id, k.b, "Done", FALSE), k.b)

WhileHandler(p, node, prev_id, scope) ==
    LET n == NewNode(p, "while_loop", "while " \o node.text, SHAPES.condition, scope, prev_id)
        x == NewMerge(n.p, "loop_exit")
    IN Walk(PushLoop(x.p, n.id, x.id), Cont("while_body", node, prev_id, scope, n.id, x.id, ""),
            node.body, n.id, scope, None)

WhileBodyDone(p, k, body_end_id) ==
    LET loop_cond_id == k.a
        p1 == IF Truthy(body_end_id) /\ body_end_id # loop_cond_id
              THEN _add_connection(p, body_end_id, loop_cond_id, "Next Iteration", FALSE)
              ELSE _add_connection(p, loop_cond_id, loop_cond_id, "Next Iteration", FALSE)
        p2 == [p1 EXCEPT !.loop_stack = Pop(@)]
    IN Ret(_add_connection(p2, loop_cond_id, k.b, "Done", FALSE), k.b)

(***************************************************************************)
(* Methods: ClassHandler._create_method_subgraph and its callers           *)
(***************************************************************************)
CallEdge(p, call_node_id, method_id) ==
    IF p.sequential_flow
    THEN _add_connection(p, call_node_id, method_id, "Call", FALSE)
    ELSE _add_connection(p, call_node_id, method_id, "Call and Return", TRUE)

\* exit_nodes[-1] in sequential flow when the method has recorded returns,
\* else the last node of the method.
MethodExit(p, method_scope, last_node_id) ==
    IF p.sequential_flow /\ method_scope \in DOMAIN p.method_exit_nodes
       /\ p.method_exit_nodes[method_scope] # <<>>
    THEN Last(p.method_exit_nodes[method_scope])
    ELSE last_node_id

\* ReturnHandler.handle after the return node exists: where the return leads.
ReturnTail(p, return_id, scope) ==
    IF Truthy(scope) /\ IsMethodScope(scope)
    THEN Ret(IF p.sequential_flow
             THEN [p EXCEPT !.method_exit_nodes =
                      Put(@, scope, Append(Get(@, scope, <<>>), return_id))]
             ELSE p, return_id)
    ELSE IF p.call_stack # <<>>
    THEN Ret(_add_connection(p, return_id, Last(p.call_stack), "", FALSE), return_id)
    ELSE Ret(_add_connection(p, return_id, p.end_id, "", FALSE), return_id)

\* What the caller of _create_method_subgraph does with its result; k.ret
\* names the caller, k.a is the node the call was made from.
AfterMethod(p, k, method_exit_id) ==
    CASE k.ret = "mcall" ->
           Ret(p, IF p.sequential_flow /\ Truthy(method_exit_id) /\ method_exit_id # k.a
                  THEN method_exit_id ELSE k.a)
      [] k.ret = "massign" ->
           Ret(IF p.sequential_flow /\ Truthy(method_exit_id) /\ method_exit_id # k.a
               THEN _add_connection(p, method_exit_id, k.a, "", FALSE) ELSE p, k.a)
      [] k.ret = "return" -> ReturnTail(p, k.a, k.scope)
      [] OTHER -> Ret(p, k.a)

\* The text of a method entry node (the argument list is left out).
MethodText(method_name) ==
    IF method_name = "__init__" THEN "Constructor: __init__" ELSE "Method: " \o method_name

\* method_subgraphs[method_key] = method_id
StoreMethod(p, method_key, method_id) ==
    [p EXCEPT !.method_subgraphs = Put(@, method_key, method_id)]

_create_method_subgraph(p, class_name, method_name, k) ==
    LET method_scope == MethodScope(class_name, method_name)
        method_key == MethodKey(class_name, method_name)
        call_node_id == k.a
    IN IF method_key \in DOMAIN p.method_subgraphs
       THEN LET existing_method_id == p.method_subgraphs[method_key]
                p1 == CallEdge(p, call_node_id, existing_method_id)
                p2 == IF p.sequential_flow THEN p1
                      ELSE [p1 EXCEPT !.method_calling_nodes = Put(@, method_scope, call_node_id)]
                last_node_id == Get(p.method_last_nodes, existing_method_id, existing_method_id)
                p3 == [p2 EXCEPT !.method_last_nodes = Put(@, call_node_id, last_node_id)]
            IN AfterMethod(p3, k, MethodExit(p3, method_scope, last_node_id))
       ELSE LET g == _generate_id(p, "method_" \o method_name)
                p1 == _add_node(g.p, g.id, MethodText(method_name), SHAPES.function_call, method_scope)
                p2 == StoreMethod(p1, method_key, g.id)
                p3 == CallEdge(p2, call_node_id, g.id)
                p4 == [p3 EXCEPT !.method_calling_nodes = Put(@, method_scope, call_node_id)]
            IN Walk(p4, [k EXCEPT !.b = g.id], prog.class_defs[class_name][method_name].body,
                    g.id, method_scope, None)

\* The rest of _create_method_subgraph once the method body has been walked.
MethodBodyDone(p, k, last_node_id, method_scope) ==
    LET p1 == [p EXCEPT !.method_last_nodes =
                   Put(@, k.a, IF Truthy(last_node_id) THEN last_node_id ELSE k.b)]
    IN AfterMethod(p1, k, MethodExit(p1, method_scope, last_node_id))

\* AssignHandler._resolve_object_type for a receiver that is a name
_resolve_object_type(p, var_name) ==
    IF var_name \in DOMAIN p.variable_types THEN p.variable_types[var_name]
    ELSE IF var_name \in ClassNames THEN var_name
    ELSE None

\* The class of the receiver, with the special handling of self.
ResolveReceiver(p, recv, scope) ==
    LET resolved_class == _resolve_object_type(p, recv)
    IN IF resolved_class = None /\ recv = "self" /\ Truthy(scope)
       THEN ScopeClassPart(scope)
       ELSE resolved_class

\* The three error texts of the method call handlers (the names are left out).
InstanceMethodError == "Instance method called on class without instantiation"
MethodNotFoundError == "Method not found in class"
UnresolvedClassError == "Could not resolve class for method"

\* error_text of the "not method_found" branch
NotFoundText(resolved_class) ==
    IF Truthy(resolved_class) THEN MethodNotFoundError ELSE UnresolvedClassError

ErrorNode(p, from_id, scope, error_text) ==
    LET n == NewNode(p, "error", error_text, SHAPES.exception, scope, from_id)
    IN Ret(n.p, n.id)

HasMethod(class_name, method_name) ==
    /\ Truthy(class_name)
    /\ class_name \in ClassNames
    /\ method_name \in DOMAIN prog.class_defs[class_name]

\* ExprHandler._handle_method_call
_handle_method_call(p, node, prev_id, scope) ==
    LET method_name == node.name
        class_name == IF node.recv \in ClassNames THEN node.recv ELSE None
        n == NewNode(p, "method_call", "Call: " \o node.text, SHAPES.function_call, scope, prev_id)
        k == Cont("method_body", node, prev_id, scope, n.id, None, "mcall")
        resolved_class == ResolveReceiver(n.p, node.recv, scope)
    IN IF HasMethod(class_name, method_name)
       THEN IF p.context.entry_type # "class" /\ prog.class_defs[class_name][method_name].self
            THEN ErrorNode(n.p, n.id, scope, InstanceMethodError)
            ELSE _create_method_subgraph(n.p, class_name, method_name, k)
       ELSE IF HasMethod(resolved_class, method_name)
       THEN _create_method_subgraph(n.p, resolved_class, method_name, k)
       ELSE ErrorNode(n.p, n.id, scope, NotFoundText(resolved_class))

\* AssignHandler._handle_method_call_assignment
_handle_method_call_assignment(p, node, prev_id, scope) ==
    LET method_name == node.name
        n == NewNode(p, "assign", node.text, DefaultShape, scope, prev_id)
        k == Cont("method_body", node, prev_id, scope, n.id, None, "massign")
        resolved_class == ResolveReceiver(n.p, node.recv, scope)
    IN IF HasMethod(resolved_class, method_name)
       THEN IF node.recv \in ClassNames /\ prog.class_defs[resolved_class][method_name].self
            THEN ErrorNode(n.p, n.id, scope, InstanceMethodError)
            ELSE _create_method_subgraph(n.p, resolved_class, method_name, k)
       ELSE ErrorNode(n.p, n.id, scope, NotFoundText(resolved_class))

\* The first node, in dict order, whose scope is class_scope; None if there is none.
FirstNodeOfScope(p, class_scope) ==
    LET at == {i \in DOMAIN p.key_order : p.node_scopes[p.key_order[i]] = class_scope}
    IN IF at = {} THEN None
       ELSE p.key_order[CHOOSE i \in at : \A j \in at : i <= j]

\* ExprHandler._handle_class_instantiation
_handle_class_instantiation(p, node, prev_id, scope) ==
    LET class_name == node.name
        n == NewNode(p, "instantiate", "Create: " \o node.text, SHAPES.function_call, scope, prev_id)
        k == Cont("method_body", node, prev_id, scope, n.id, None, "new")
        class_node_id == FirstNodeOfScope(n.p, ClassScope(class_name))
    IN IF HasMethod(class_name, "__init__")
       THEN _create_method_subgraph(n.p, class_name, "__init__", k)
       ELSE IF class_node_id # None
       THEN Ret(_add_connection(n.p, n.id, class_node_id, "Instantiate", FALSE), n.id)
       ELSE Ret(n.p, n.id)

\* AssignHandler._handle_class_instantiation_assignment
_handle_class_instantiation_assignment(p, node, prev_id, scope) ==
    LET class_name == node.name
        n == NewNode(p, "assign", node.text, DefaultShape, scope, prev_id)
        p1 == [n.p EXCEPT !.variable_types = Put(@, node.recv, class_name)]
        k == Cont("method_body", node, prev_id, scope, n.id, None, "assignnew")
    IN IF HasMethod(class_name, "__init__")
       THEN _create_method_subgraph(p1, class_name, "__init__", k)
       ELSE Ret(p1, n.id)

(***************************************************************************)
(* ReturnHandler                                                           *)
(***************************************************************************)
ReturnHandler(p, node, prev_id, scope) ==
    LET n == NewNode(p, "return", node.text, DefaultShape, scope, prev_id)
    IN IF node.k = "returncall" /\ _is_recursive_call(node.name, scope)
       THEN Ret(RecursionEdge(n.p, n.id, scope), None)
       ELSE IF node.k = "returnmcall"
       THEN LET resolved_class == ResolveReceiver(n.p, node.recv, scope)
                k == Cont("method_body", node, prev_id, scope, n.id, None, "return")
            IN IF HasMethod(resolved_class, node.name)
               THEN _create_method_subgraph(n.p, resolved_class, node.name, k)
               ELSE ReturnTail(n.p, n.id, scope)
       ELSE ReturnTail(n.p, n.id, scope)

(***************************************************************************)
(* Dispatch: self.handlers.get(type(node), self.default_handler)           *)
(***************************************************************************)
ExprHandler(p, node, prev_id, scope) ==
    CASE node.k = "mcall" -> _handle_method_call(p, node, prev_id, scope)
      [] node.k = "exit" -> ExitFunctionHandler(p, node, prev_id, scope)
      [] node.k = "print" -> PrintHandler(p, node, prev_id, scope)
      [] node.k = "call" /\ node.name \in ClassNames ->
           _handle_class_instantiation(p, node, prev_id, scope)
      [] node.k = "call" /\ node.name \notin ClassNames -> ExprCall(p, node, prev_id, scope)
      [] OTHER -> ExprOther(p, node, prev_id, scope)

AssignHandler(p, node, prev_id, scope) ==
    CASE node.k = "assigncall" /\ node.name \in ClassNames ->
           _handle_class_instantiation_assignment(p, node, prev_id, scope)
      [] node.k = "massign" -> _handle_method_call_assignment(p, node, prev_id, scope)
      [] node.k = "assigncall" /\ node.name \notin ClassNames
            /\ node.name \in DOMAIN prog.function_defs -> AssignCall(p, node, prev_id, scope)
      [] OTHER -> AssignRegular(p, node, prev_id, scope)

ExprKinds == {"call", "mcall", "exit", "print", "expr", "doc"}
AssignKinds == {"assign", "assigncall", "massign"}
ReturnKinds == {"return", "returncall", "returnmcall"}

\* _should_process_node(node, index), with every show_* option at its default
_should_process_node(node, index) == ~(index = 0 /\ node.k = "doc")

\* No node of the walk is left once the counter has reached MaxCounter.
MaxCounter == 400

\* The innermost loop is at a statement it hands to a handler.
AtHandled(kinds) ==
    /\ AtStmt
    /\ proc.node_counter < MaxCounter
    /\ Top.kind = "main" \/ _should_process_node(Node, Top.idx - 1)
    /\ Node.k \in kinds

others == <<prog, stage, config, collapsed_subgraphs, output, probe>>

\* The metadata dict: its keys, and under "collapsed_subgraphs" and
\* "expanded_subgraphs" a map from scope to what is reported about it.
Metadata(keys, collapsed, expanded) ==
    [keys |-> keys, collapsed_subgraphs |-> collapsed, expanded_subgraphs |-> expanded]

\* {}
NoMetadata == Metadata({}, EmptyMap, EmptyMap)

\* What generate returns: the Mermaid text, as the node ids its node lines
\* declare, its connection lines and the scopes it has a subgraph block for,
\* and the metadata.
Diagram(declared, edges, regions, metadata) ==
    [declared |-> declared, edges |-> edges, regions |-> regions, metadata |-> metadata]

\* Nothing returned yet
NoDiagram == Diagram({}, {}, {}, NoMetadata)

\* The diagram generate returns when process_code fails or raises.
ErrorDiagram == Diagram({"error"}, {}, {}, NoMetadata)

(***************************************************************************)
(* Actions of the build                                                    *)
(***************************************************************************)
\* process_code up to the call of _process_main_flow
process_code ==
    /\ stage = "start"
    /\ prog.parses
    /\ LET g1 == _generate_id(proc, "start")
           p1 == _add_node(g1.p, g1.id, "Start", SHAPES.start, None)
           g2 == _generate_id(p1, "end")
           p2 == _add_node([g2.p EXCEPT !.end_id = g2.id], g2.id, "End", SHAPES.end, None)
       IN /\ proc' = p2
          /\ stack' = <<MainFrame(prog.main, g1.id)>>
    /\ stage' = "build"
    /\ UNCHANGED <<prog, config, collapsed_subgraphs, output, probe>>

\* ast.parse raises, process_code returns False
process_code_fails ==
    /\ stage = "start"
    /\ ~prog.parses
    /\ stage' = "done"
    /\ output' = ErrorDiagram
    /\ UNCHANGED <<prog, proc, stack, config, collapsed_subgraphs, probe>>

\* `continue` of _process_node_list at a node that is not processed
SkipNode ==
    /\ AtStmt
    /\ Top.kind = "list"
    /\ ~_should_process_node(Node, Top.idx - 1)
    /\ stack' = [stack EXCEPT ![Len(stack)].idx = @ + 1]
    /\ UNCHANGED <<proc, others>>

HandleExpr ==
    /\ AtHandled(ExprKinds)
    /\ \E o \in {ExprHandler(proc, Node, Top.cur, Top.scope)} : Apply(o)
    /\ UNCHANGED others

HandleAssign ==
    /\ AtHandled(AssignKinds)
    /\ \E o \in {AssignHandler(proc, Node, Top.cur, Top.scope)} : Apply(o)
    /\ UNCHANGED others

HandleAugAssign ==
    /\ AtHandled({"augassign"})
    /\ \E o \in {AugAssignHandler(proc, Node, Top.cur, Top.scope)} : Apply(o)
    /\ UNCHANGED others

HandleReturn ==
    /\ AtHandled(ReturnKinds)
    /\ \E o \in {ReturnHandler(proc, Node, Top.cur, Top.scope)} : Apply(o)
    /\ UNCHANGED others

HandleIf ==
    /\ AtHandled({"if"})
    /\ \E o \in {IfHandler(proc, Node, Top.cur, Top.scope)} : Apply(o)
    /\ UNCHANGED others

HandleFor ==
    /\ AtHandled({"for"})
    /\ \E o \in {ForHandler(proc, Node, Top.cur, Top.scope)} : Apply(o)
    /\ UNCHANGED others

HandleWhile ==
    /\ AtHandled({"while"})
    /\ \E o \in {WhileHandler(proc, Node, Top.cur, Top.scope)} : Apply(o)
    /\ UNCHANGED others

HandleBreak ==
    /\ AtHandled({"break"})
    /\ \E o \in {BreakHandler(proc, Node, Top.cur, Top.scope)} : Apply(o)
    /\ UNCHANGED others

HandleContinue ==
    /\ AtHandled({"continue"})
    /\ \E o \in {ContinueHandler(proc, Node, Top.cur, Top.scope)} : Apply(o)
    /\ UNCHANGED others

HandleRaise ==
    /\ AtHandled({"raise"})
    /\ \E o \in {RaiseHandler(proc, Node, Top.cur, Top.scope)} : Apply(o)
    /\ UNCHANGED others

HandlePass ==
    /\ AtHandled({"pass"})
    /\ \E o \in {PassHandler(proc, Node, Top.cur, Top.scope)} : Apply(o)
    /\ UNCHANGED others

HandleImport ==
    /\ AtHandled({"import"})
    /\ \E o \in {ImportHandler(proc, Node, Top.cur, Top.scope)} : Apply(o)
    /\ UNCHANGED others

HandleClassDef ==
    /\ AtHandled({"classdef"})
    /\ \E o \in {ClassHandler(proc, Node, Top.cur, Top.scope)} : Apply(o)
    /\ UNCHANGED others

HandleUnsupported ==
    /\ AtHandled({"unsupported"})
    /\ \E o \in {UnsupportedHandler(proc, Node, Top.cur, Top.scope)} : Apply(o)
    /\ UNCHANGED others

\* The handlers go on after the walk they started has returned Top.cur.
CallBodyReturned ==
    /\ Returned("call_body")
    /\ \E o \in {CallBodyDone(proc, Below, Top.cur)} : Resume(o)
    /\ UNCHANGED others

PrintBodyReturned ==
    /\ Returned("print_body")
    /\ \E o \in {PrintBodyDone(proc, Below, Top.cur)} : Resume(o)
    /\ UNCHANGED others

IfTrueReturned ==
    /\ Returned("if_true")
    /\ \E o \in {IfTrueDone(proc, Below, Top.cur)} : Resume(o)
    /\ UNCHANGED others

IfFalseReturned ==
    /\ Returned("if_false")
    /\ \E o \in {IfFalseDone(proc, Below, Top.cur)} : Resume(o)
    /\ UNCHANGED others

ForBodyReturned ==
    /\ Returned("for_body")
    /\ \E o \in {ForBodyDone(proc, Below, Top.cur)} : Resume(o)
    /\ UNCHANGED others

WhileBodyReturned ==
    /\ Returned("while_body")
    /\ \E o \in {WhileBodyDone(proc, Below, Top.cur)} : Resume(o)
    /\ UNCHANGED others

MethodBodyReturned ==
    /\ Returned("method_body")
    /\ \E o \in {MethodBodyDone(proc, Below, Top.cur, Top.scope)} : Resume(o)
    /\ UNCHANGED others

\* process_code after _process_main_flow returned current_id
MainFlowReturned ==
    /\ stage = "build"
    /\ Len(stack) = 1
    /\ MainDone(Top)
    /\ LET current_id == Top.cur
           end_node == Get(proc.method_last_nodes, current_id, None)
       IN proc' = IF Truthy(current_id) /\ current_id # Top.a
                  THEN IF current_id \in DOMAIN proc.method_last_nodes
                          /\ Truthy(end_node) /\ end_node # current_id
                       THEN _add_connection(proc, end_node, proc.end_id, "", FALSE)
                       ELSE _add_connection(proc, current_id, proc.end_id, "", FALSE)
                  ELSE proc
    /\ stack' = <<>>
    /\ stage' = "built"
    /\ UNCHANGED <<prog, config, collapsed_subgraphs, output, probe>>

Build ==
    \/ process_code
    \/ process_code_fails
    \/ SkipNode
    \/ HandleExpr
    \/ HandleAssign
    \/ HandleAugAssign
    \/ HandleReturn
    \/ HandleIf
    \/ HandleFor
    \/ HandleWhile
    \/ HandleBreak
    \/ HandleContinue
    \/ HandleRaise
    \/ HandlePass
    \/ HandleImport
    \/ HandleClassDef
    \/ HandleUnsupported
    \/ CallBodyReturned
    \/ PrintBodyReturned
    \/ IfTrueReturned
    \/ IfFalseReturned
    \/ ForBodyReturned
    \/ WhileBodyReturned
    \/ MethodBodyReturned
    \/ MainFlowReturned

(***************************************************************************)
(* Post-processing: configuration                                          *)
(***************************************************************************)
EnvironmentConfig(subgraph_whitelist, force_collapse_list, max_subgraph_nodes, prune_unused_nodes) ==
    [subgraph_whitelist |-> subgraph_whitelist,
     force_collapse_list |-> force_collapse_list,
     max_subgraph_nodes |-> max_subgraph_nodes,
     prune_unused_nodes |-> prune_unused_nodes]

(***************************************************************************)
(* SubgraphManager: the collapse decision                                  *)
(***************************************************************************)
\* scope[6:] of a scope with scope.startswith("class_") and len(scope) > 6,
\* else None.
ClassBodies ==
    ClassNames \cup {c \o "_" \o m : c \in ClassNames, m \in MethodNames}

ClassBody(scope) ==
    IF \E b \in ClassBodies : scope = "class_" \o b
    THEN CHOOSE b \in ClassBodies : scope = "class_" \o b
    ELSE None

get_node_count(p, scope) ==
    IF ~Truthy(scope) THEN 0
    ELSE Cardinality({k \in DOMAIN p.node_scopes : p.node_scopes[k] = scope})

should_collapse_whitelist_first(p, cfg, scope) ==
    LET entry_name == p.context.entry_name
        class_name == ClassBody(scope)
    IN IF ~Truthy(scope) THEN FALSE
       ELSE IF scope = "main" THEN FALSE
       ELSE IF scope \in cfg.subgraph_whitelist THEN FALSE
       ELSE IF scope \in cfg.force_collapse_list THEN TRUE
       ELSE IF Truthy(entry_name) /\ scope = entry_name THEN FALSE
       ELSE IF Truthy(class_name) /\ class_name \in cfg.subgraph_whitelist THEN FALSE
       ELSE IF Truthy(class_name) /\ class_name \in cfg.force_collapse_list THEN TRUE
       ELSE get_node_count(p, scope) > cfg.max_subgraph_nodes

\* The size rule with "at least" for "more than".
should_collapse_at_threshold(p, cfg, scope) ==
    LET entry_name == p.context.entry_name
        class_name == ClassBody(scope)
    IN IF ~Truthy(scope) THEN FALSE
       ELSE IF scope = "main" THEN FALSE
       ELSE IF scope \in cfg.force_collapse_list THEN TRUE
       ELSE IF scope \in cfg.subgraph_whitelist THEN FALSE
       ELSE IF Truthy(entry_name) /\ scope = entry_name THEN FALSE
       ELSE IF Truthy(class_name) /\ class_name \in cfg.force_collapse_list THEN TRUE
       ELSE IF Truthy(class_name) /\ class_name \in cfg.subgraph_whitelist THEN FALSE
       ELSE get_node_count(p, scope) >= cfg.max_subgraph_nodes

\* The class-name rules ahead of the exact ones.
should_collapse_patterns_first(p, cfg, scope) ==
    LET entry_name == p.context.entry_name
        class_name == ClassBody(scope)
    IN IF ~Truthy(scope) THEN FALSE
       ELSE IF scope = "main" THEN FALSE
       ELSE IF Truthy(class_name) /\ class_name \in cfg.force_collapse_list THEN TRUE
       ELSE IF Truthy(class_name) /\ class_name \in cfg.subgraph_whitelist THEN FALSE
       ELSE IF scope \in cfg.force_collapse_list THEN TRUE
       ELSE IF scope \in cfg.subgraph_whitelist THEN FALSE
       ELSE IF Truthy(entry_name) /\ scope = entry_name THEN FALSE
       ELSE get_node_count(p, scope) > cfg.max_subgraph_nodes

should_collapse(p, cfg, scope) ==
    LET entry_name == p.context.entry_name
        class_name == ClassBody(scope)
    IN IF ~Truthy(scope) THEN FALSE
       ELSE IF scope = "main" THEN FALSE
       ELSE IF scope \in cfg.force_collapse_list THEN TRUE
       ELSE IF scope \in cfg.subgraph_whitelist THEN FALSE
       ELSE IF Truthy(entry_name) /\ scope = entry_name THEN FALSE
       ELSE IF Truthy(class_name) /\ class_name \in cfg.force_collapse_list THEN TRUE
       ELSE IF Truthy(class_name) /\ class_name \in cfg.subgraph_whitelist THEN FALSE
       ELSE get_node_count(p, scope) > cfg.max_subgraph_nodes

\* FlowchartPostProcessor._is_subgraph_too_large of post_processor.py, the
\* class main.py constructs.  Nothing sets self.entry_name, so its rule 3
\* ("hasattr(self, 'entry_name') and ...") never applies.
_is_subgraph_too_large(p, cfg, scope) ==
    LET class_name == ClassBody(scope)
    IN IF scope \in cfg.force_collapse_list THEN TRUE
       ELSE IF scope \in cfg.subgraph_whitelist THEN FALSE
       ELSE IF Truthy(class_name) /\ class_name \in cfg.force_collapse_list THEN TRUE
       ELSE IF Truthy(class_name) /\ class_name \in cfg.subgraph_whitelist THEN FALSE
       ELSE Cardinality({k \in DOMAIN p.node_scopes : p.node_scopes[k] = scope})
                > cfg.max_subgraph_nodes

(***************************************************************************)
(* SubgraphManager.preprocess                                              *)
(***************************************************************************)
ScopesOf(p) == {x \in Values(p.node_scopes) : Truthy(x)}
NodesOf(p, scope) == {k \in DOMAIN p.node_scopes : p.node_scopes[k] = scope}

\* scope.startswith("class_") and "_" not in scope[6:]
IsClassScope(scope) == \E c \in ClassNames : scope = ClassScope(c)

\* The scopes _collect_nested_nodes(scope, ..) calls itself for: the children
\* of the scope and, for a class scope, the scopes that start with its name.
NestedScopes(p, scope) ==
    Get(p.scope_children, scope, {})
    \cup (IF IsClassScope(scope)
          THEN {x \in ScopesOf(p) : \E c \in ClassNames, m \in MethodNames :
                    scope = ClassScope(c) /\ x = MethodScope(c, m)}
          ELSE {})

\* Every scope a chain of such calls gets to from the scopes of `from`.
RECURSIVE Descendants(_, _, _)
Descendants(p, from, seen) ==
    LET next == UNION {NestedScopes(p, x) : x \in from} \ seen
    IN IF next = {} THEN seen ELSE Descendants(p, next, seen \cup next)

\* _collect_nested_nodes has no visited set: it returns only if no scope it
\* gets to is nested in itself.
CollectTerminates(p, scope) ==
    \A x \in {scope} \cup Descendants(p, {scope}, {}) : x \notin Descendants(p, {x}, {})

_collect_nested_nodes(p, scope) ==
    UNION {NodesOf(p, x) : x \in Descendants(p, {scope}, {})}

CollapsedNodeId(scope, node_count) ==
    "collapsed_nodes__" \o scope \o "_" \o ToString(node_count)

CollapsedSubgraph(p, scope) ==
    [node_count |-> get_node_count(p, scope),
     original_scope |-> scope,
     collapsed_node_id |-> CollapsedNodeId(scope, get_node_count(p, scope)),
     scope_nodes |-> NodesOf(p, scope) \cup _collect_nested_nodes(p, scope)]

RemoveKeys(f, keys) == [k \in DOMAIN f \ keys |-> f[k]]

ToCollapse(p, cfg) == {x \in ScopesOf(p) : should_collapse(p, cfg, x)}

\* The state preprocess leaves behind when it returns.
preprocess_state(p, cfg) ==
    [x \in ToCollapse(p, cfg) |-> CollapsedSubgraph(p, x)]

preprocess_nodes(p, cfg) ==
    [p EXCEPT !.nodes = RemoveKeys(@, UNION {CollapsedSubgraph(p, x).scope_nodes :
                                                 x \in ToCollapse(p, cfg)})]

(***************************************************************************)
(* GraphOptimizer                                                          *)
(***************************************************************************)
\* conn_pattern.match(connection).groups(): the leading blanks are skipped,
\* "<" is captured when the arrow is "<-->", the label is "" when absent.
conn_match(connection) ==
    [from |-> connection.from, bidirectional |-> connection.arrow = "<-->",
     label |-> connection.label, to |-> connection.to]

\* The pattern of prune_unreferenced_nodes has no "(<)?": '\w+\s*-->' does not
\* match at "a <--> b".
prune_conn_matches(connection) == connection.arrow = "-->"

Blank == {"", " "}

\* re.search(r"\{\{\s*\}\}$", node_def)
IsBypass(node_def) ==
    /\ node_def.shape = SHAPES.merge
    /\ \A i \in DOMAIN node_def.text : node_def.text[i] \in Blank

BypassNodes(p) == {k \in DOMAIN p.nodes : IsBypass(p.nodes[k])}

\* The first loop of optimize_graph: fm maps each bypass source to the target
\* of its last connection, keys holds the sources in insertion order.
RECURSIVE BuildForwarding(_, _, _, _, _)
BuildForwarding(conns, bypass_nodes, i, fm, keys) ==
    IF i > Len(conns) THEN [fm |-> fm, keys |-> keys]
    ELSE LET m == conn_match(conns[i])
         IN IF m.from \in bypass_nodes
            THEN BuildForwarding(conns, bypass_nodes, i + 1, Put(fm, m.from, m.to),
                                 IF m.from \in DOMAIN fm THEN keys ELSE Append(keys, m.from))
            ELSE BuildForwarding(conns, bypass_nodes, i + 1, fm, keys)

\* while target in forwarding_map: ...
RECURSIVE Chase(_, _, _)
Chase(fm, target, visited) ==
    IF target \in DOMAIN fm
    THEN LET next_node == fm[target]
         IN IF next_node \in visited
            THEN [target |-> target, visited |-> visited]
            ELSE Chase(fm, next_node, visited \cup {next_node})
    ELSE [target |-> target, visited |-> visited]

\* for node_id in list(forwarding_map.keys()): ...
RECURSIVE ResolveChains(_, _, _)
ResolveChains(fm, keys, i) ==
    IF i > Len(keys) THEN fm
    ELSE LET c == Chase(fm, fm[keys[i]], {keys[i]})
             fm1 == [k \in DOMAIN fm \cup c.visited |->
                        IF k \in c.visited THEN c.target ELSE fm[k]]
         IN ResolveChains(fm1, keys, i + 1)

RECURSIVE Rebuild(_, _, _, _)
Rebuild(conns, bypass_nodes, fm, i) ==
    IF i > Len(conns) THEN <<>>
    ELSE LET m == conn_match(conns[i])
             to_id == IF m.to \in DOMAIN fm THEN fm[m.to] ELSE m.to
         IN IF m.from \in bypass_nodes
            THEN Rebuild(conns, bypass_nodes, fm, i + 1)
            ELSE <<FormatConn(7, m.from, Arrow(m.bidirectional), m.label, to_id)>>
                 \o Rebuild(conns, bypass_nodes, fm, i + 1)

\* Bypass elimination that forwards an edge into a bypass node by one hop
\* only and leaves the bypass nodes and their edges in place.
optimize_graph_one_hop(p) ==
    LET bypass_nodes == BypassNodes(p)
        fm == BuildForwarding(p.connections, bypass_nodes, 1, EmptyMap, <<>>).fm
    IN [p EXCEPT !.connections = Rebuild(p.connections, {}, fm, 1)]

\* for node_id in bypass_nodes: self._processor.nodes.pop(node_id, None)
PopBypassNodes(nodes, bypass_nodes) == RemoveKeys(nodes, bypass_nodes)

optimize_graph(p) ==
    LET bypass_nodes == BypassNodes(p)
        built == BuildForwarding(p.connections, bypass_nodes, 1, EmptyMap, <<>>)
        fm == ResolveChains(built.fm, built.keys, 1)
    IN IF bypass_nodes = {} THEN p
       ELSE [p EXCEPT !.connections = Rebuild(p.connections, bypass_nodes, fm, 1),
                      !.nodes = PopBypassNodes(@, bypass_nodes)]

prune_unreferenced_nodes(p, cfg) ==
    LET referenced ==
            UNION {{p.connections[i].from, p.connections[i].to} :
                       i \in {j \in DOMAIN p.connections : prune_conn_matches(p.connections[j])}}
            \cup (IF Truthy(p.end_id) THEN {p.end_id} ELSE {})
        unused_nodes == DOMAIN p.nodes \ referenced
    IN IF ~cfg.prune_unused_nodes THEN p
       ELSE [p EXCEPT !.nodes = RemoveKeys(@, unused_nodes),
                      !.node_scopes = RemoveKeys(@, unused_nodes),
                      !.key_order = SelectSeq(@, LAMBDA k : k \notin unused_nodes)]

(***************************************************************************)
(* SubgraphManager.redirect_connections                                    *)
(***************************************************************************)
RECURSIVE SetToSeq(_)
SetToSeq(S) ==
    IF S = {} THEN <<>>
    ELSE LET x == CHOOSE x \in S : TRUE IN <<x>> \o SetToSeq(S \ {x})

\* node_redirect: a node of several collapsed scopes gets the placeholder of
\* the scope the dict yields last; the order is that of a set of strings.
node_redirect(collapsed, node_id) ==
    IF \E x \in DOMAIN collapsed : node_id \in collapsed[x].scope_nodes
    THEN collapsed[CHOOSE x \in DOMAIN collapsed : node_id \in collapsed[x].scope_nodes].collapsed_node_id
    ELSE node_id

\* The first loop: a connection survives unless a redirected end is neither
\* in the node map nor the end it had.
RECURSIVE RedirectKept(_, _, _)
RedirectKept(p, collapsed, i) ==
    IF i > Len(p.connections) THEN <<>>
    ELSE LET m == conn_match(p.connections[i])
             new_from == node_redirect(collapsed, m.from)
             new_to == node_redirect(collapsed, m.to)
             rest == RedirectKept(p, collapsed, i + 1)
         IN IF new_from \notin DOMAIN p.nodes /\ new_from # m.from THEN rest
            ELSE IF new_to \notin DOMAIN p.nodes /\ new_to # m.to THEN rest
            ELSE <<FormatConn(4, new_from, Arrow(m.bidirectional), m.label, new_to)>> \o rest

Matches(p) == {conn_match(p.connections[i]) : i \in DOMAIN p.connections}

entry_connections(p, metadata) ==
    {FormatConn(4, m.from, Arrow(m.bidirectional), m.label, metadata.collapsed_node_id) :
        m \in {c \in Matches(p) : c.to \in metadata.scope_nodes /\ c.from \in DOMAIN p.nodes}}

exit_connections(p, metadata) ==
    {FormatConn(4, metadata.collapsed_node_id, Arrow(m.bidirectional), m.label, m.to) :
        m \in {c \in Matches(p) : c.from \in metadata.scope_nodes /\ c.to \in DOMAIN p.nodes}}

\* sorted(entry_connections) compares the tuples (from, to, label, bool): two
\* with the same ends of which only one has a label compare None with a str,
\* a TypeError.
Unsortable(connections) ==
    \E c, d \in connections :
        c.from = d.from /\ c.to = d.to /\ c.label = "" /\ d.label # ""

RedirectRaises(p, collapsed) ==
    \E x \in DOMAIN collapsed :
        \/ Unsortable(entry_connections(p, collapsed[x]))
        \/ Unsortable(exit_connections(p, collapsed[x]))

\* The second loop, over the collapsed scopes in the order scopes lists them.
RECURSIVE RedirectAdded(_, _, _, _)
RedirectAdded(p, collapsed, scopes, i) ==
    IF i > Len(scopes) THEN <<>>
    ELSE SetToSeq(entry_connections(p, collapsed[scopes[i]]))
         \o SetToSeq(exit_connections(p, collapsed[scopes[i]]))
         \o RedirectAdded(p, collapsed, scopes, i + 1)

redirect_connections(p, collapsed) ==
    IF DOMAIN collapsed = {} THEN p
    ELSE [p EXCEPT !.connections =
              RedirectKept(p, collapsed, 1)
              \o RedirectAdded(p, collapsed, SetToSeq(DOMAIN collapsed), 1)]

(***************************************************************************)
(* MermaidGenerator                                                        *)
(***************************************************************************)
\* scope.startswith("class_") and scope.count("_") >= 2: the class scope
\* f"class_{scope.split('_')[1]}" such a scope is filed under.
DerivedClassScopes(p) ==
    {ClassScope(c) : c \in {d \in ClassNames :
        \E m \in MethodNames : MethodScope(d, m) \in ScopesOf(p)}}

MethodScopesOf(p, class_scope) ==
    {x \in ScopesOf(p) : \E c \in ClassNames, m \in MethodNames :
        class_scope = ClassScope(c) /\ x = MethodScope(c, m)}

NestedInRender(p) == UNION {p.scope_children[x] : x \in DOMAIN p.scope_children}

RootScopes(p) ==
    {"main"} \cup DerivedClassScopes(p)
    \cup {x \in ScopesOf(p) : ClassBody(x) = None /\ x # "main" /\ x \notin NestedInRender(p)}

\* What one call build_subgraph(scope) does after the visited check: nothing,
\* a collapsed region, or an expanded region and the scopes it descends into.
RenderStep(p, cfg, collapsed, scope) ==
    IF NodesOf(p, scope) = {} /\ ~IsClassScope(scope)
    THEN [placeholders |-> {}, descend |-> {}, block |-> FALSE]
    ELSE IF should_collapse(p, cfg, scope)
    THEN [placeholders |-> IF scope \in DOMAIN collapsed
                           THEN {collapsed[scope].collapsed_node_id} ELSE {},
          descend |-> {},
          block |-> scope \in DOMAIN collapsed]
    ELSE [placeholders |-> {},
          descend |-> IF IsClassScope(scope) THEN MethodScopesOf(p, scope)
                      ELSE Get(p.scope_children, scope, {}),
          block |-> scope # "main"]

\* The placeholders of the collapsed regions _build_subgraphs writes.
RECURSIVE RenderedPlaceholders(_, _, _, _, _)
RenderedPlaceholders(p, cfg, collapsed, todo, visited) ==
    IF todo \subseteq visited THEN {}
    ELSE LET scope == CHOOSE x \in todo \ visited : TRUE
             step == RenderStep(p, cfg, collapsed, scope)
         IN step.placeholders
            \cup RenderedPlaceholders(p, cfg, collapsed, todo \cup step.descend,
                                      visited \cup {scope})

\* The scopes _build_subgraphs writes a 'subgraph "..."' ... 'end' block for,
\* collapsed or expanded (the title of main is None: no block).
RECURSIVE RenderedRegions(_, _, _, _, _)
RenderedRegions(p, cfg, collapsed, todo, visited) ==
    IF todo \subseteq visited THEN {}
    ELSE LET scope == CHOOSE x \in todo \ visited : TRUE
             step == RenderStep(p, cfg, collapsed, scope)
         IN (IF step.block THEN {scope} ELSE {})
            \cup RenderedRegions(p, cfg, collapsed, todo \cup step.descend,
                                 visited \cup {scope})

\* The diagram: the ids its node lines declare, its connection lines and its
\* subgraph blocks.
build_mermaid(p, cfg, collapsed) ==
    [declared |-> DOMAIN p.nodes
                  \cup RenderedPlaceholders(p, cfg, collapsed, RootScopes(p), {}),
     edges |-> Matches(p),
     regions |-> RenderedRegions(p, cfg, collapsed, RootScopes(p), {})]

MetadataKeys ==
    {"collapsed_subgraphs", "expanded_subgraphs", "subgraph_status_map", "all_subgraphs",
     "file_path", "name_to_line_map", "subgraph_whitelist", "force_collapse_list"}

\* build_metadata, and the keys generate_mermaid and generate add.
build_metadata(p, collapsed) ==
    LET all_scopes == {x \in ScopesOf(p) : x # "main"}
        expanded == [x \in all_scopes \ DOMAIN collapsed |->
                        [node_count |-> get_node_count(p, x),
                         original_scope |-> x,
                         scope_nodes |-> NodesOf(p, x)]]
    IN Metadata(MetadataKeys
                    \cup (IF Truthy(p.context.entry_type) THEN {"entry_selection"} ELSE {}),
                collapsed, expanded)

(***************************************************************************)
(* FlowchartGenerator.generate after the walk                              *)
(***************************************************************************)
preprocess ==
    /\ stage = "built"
    /\ \A x \in ToCollapse(proc, config) : CollectTerminates(proc, x)
    /\ proc' = preprocess_nodes(proc, config)
    /\ collapsed_subgraphs' = preprocess_state(proc, config)
    /\ stage' = "preprocessed"
    /\ UNCHANGED <<prog, stack, config, output, probe>>

\* The RecursionError of _collect_nested_nodes leaves generate: no result.
preprocess_raises_uncaught ==
    /\ stage = "built"
    /\ \E x \in ToCollapse(proc, config) : ~CollectTerminates(proc, x)
    /\ stage' = "raised"
    /\ UNCHANGED <<prog, proc, stack, config, collapsed_subgraphs, output, probe>>

\* _collect_nested_nodes exceeds the recursion limit; generate catches the
\* RecursionError and returns the error diagram.
preprocess_raises ==
    /\ stage = "built"
    /\ \E x \in ToCollapse(proc, config) : ~CollectTerminates(proc, x)
    /\ stage' = "done"
    /\ output' = ErrorDiagram
    /\ UNCHANGED <<prog, proc, stack, config, collapsed_subgraphs, probe>>

optimize ==
    /\ stage = "preprocessed"
    /\ proc' = optimize_graph(proc)
    /\ stage' = "optimized"
    /\ UNCHANGED <<prog, stack, config, collapsed_subgraphs, output, probe>>

redirect ==
    /\ stage = "optimized"
    /\ ~RedirectRaises(proc, collapsed_subgraphs)
    /\ proc' = redirect_connections(proc, collapsed_subgraphs)
    /\ stage' = "redirected"
    /\ UNCHANGED <<prog, stack, config, collapsed_subgraphs, output, probe>>

\* sorted raises in redirect_connections; generate catches the TypeError and
\* returns the error diagram.
redirect_raises ==
    /\ stage = "optimized"
    /\ RedirectRaises(proc, collapsed_subgraphs)
    /\ stage' = "done"
    /\ output' = ErrorDiagram
    /\ UNCHANGED <<prog, proc, stack, config, collapsed_subgraphs, probe>>

\* view_filter.apply() returns at once (view_mode is never "compact"), then
\* prune_unreferenced_nodes
prune ==
    /\ stage = "redirected"
    /\ proc' = prune_unreferenced_nodes(proc, config)
    /\ stage' = "pruned"
    /\ UNCHANGED <<prog, stack, config, collapsed_subgraphs, output, probe>>

generate_mermaid ==
    /\ stage = "pruned"
    /\ \E d \in {build_mermaid(proc, config, collapsed_subgraphs)} :
          output' = Diagram(d.declared, d.edges, d.regions,
                            build_metadata(proc, collapsed_subgraphs))
    /\ stage' = "done"
    /\ UNCHANGED <<prog, proc, stack, config, collapsed_subgraphs, probe>>

PostProcess ==
    \/ preprocess
    \/ preprocess_raises
    \/ optimize
    \/ redirect
    \/ redirect_raises
    \/ prune
    \/ generate_mermaid

(***************************************************************************)
(* The generator: one source unit, one environment                         *)
(***************************************************************************)
SmallSubgraphNodes == 3

\* Values of SUBGRAPH_WHITELIST, FORCE_COLLAPSE_LIST, MAX_SUBGRAPH_NODES and
\* PRUNE_UNUSED_NODES as load_environment_config reads them.
Configs ==
    {EnvironmentConfig({}, {}, MAX_SUBGRAPH_NODES, TRUE),
     EnvironmentConfig({}, {}, MAX_SUBGRAPH_NODES, FALSE),
     EnvironmentConfig({}, {"f", "g"}, MAX_SUBGRAPH_NODES, TRUE),
     EnvironmentConfig({}, {"f"}, MAX_SUBGRAPH_NODES, TRUE),
     EnvironmentConfig({"class_A_m", "class_B_m"}, {"A", "B"}, MAX_SUBGRAPH_NODES, TRUE),
     EnvironmentConfig({"f"}, {}, SmallSubgraphNodes, TRUE),
     EnvironmentConfig({}, {}, SmallSubgraphNodes, FALSE)}

Init ==
    /\ \E i \in Inputs, sequential_flow \in BOOLEAN :
          /\ prog = i.prog
          /\ proc = NewProcessor(sequential_flow, i.context)
    /\ stack = <<>>
    /\ stage = "start"
    /\ config \in Configs
    /\ collapsed_subgraphs = EmptyMap
    /\ output = NoDiagram
    /\ probe = None

Next == Build \/ PostProcess

Spec == Init /\ [][Next]_vars

\* process_code runs on: a step of the build that is possible is taken.
FairSpec == Init /\ [][Build]_vars /\ WF_vars(Build)

(***************************************************************************)
(* Bypass elimination on its own: graphs of two plain nodes and two bypass *)
(* nodes with any connections between them, chains and cycles of bypass    *)
(* nodes included; optimize_graph runs on such a graph, then once more.    *)
(***************************************************************************)
MaxGraphEdges == 3

GraphNodes ==
    [k \in {"a", "c", "merge1", "merge2"} |->
        IF k \in {"a", "c"} THEN NodeDef(k, SHAPES.print, <<"x">>)
        ELSE NodeDef(k, SHAPES.merge, <<" ">>)]

GraphInit ==
    /\ prog = Program(<<>>, EmptyMap, EmptyMap)
    /\ proc = [NewProcessor(FALSE, FileMode) EXCEPT
                   !.nodes = GraphNodes,
                   !.node_scopes = [k \in DOMAIN GraphNodes |-> "main"],
                   !.key_order = <<"a", "c", "merge1", "merge2">>]
    /\ stack = <<>>
    /\ stage = "graph"
    /\ config = EnvironmentConfig({}, {}, MAX_SUBGRAPH_NODES, TRUE)
    /\ collapsed_subgraphs = EmptyMap
    /\ output = NoDiagram
    /\ probe = None

graph_add_connection ==
    /\ stage = "graph"
    /\ Len(proc.connections) < MaxGraphEdges
    /\ \E from_id \in {"a", "merge1", "merge2"}, to_id \in {"c", "merge1", "merge2"},
          bidirectional \in BOOLEAN :
          proc' = _add_connection(proc, from_id, to_id,
                                  IF bidirectional THEN "Call and Return" ELSE "",
                                  bidirectional)
    /\ UNCHANGED <<prog, stack, stage, config, collapsed_subgraphs, output, probe>>

\* probe keeps the graph the first run got and the graph it left.
graph_optimize ==
    /\ stage = "graph"
    /\ proc' = optimize_graph(proc)
    /\ probe' = [input |-> proc, once |-> optimize_graph(proc)]
    /\ stage' = "graph_once"
    /\ UNCHANGED <<prog, stack, config, collapsed_subgraphs, output>>

graph_optimize_again ==
    /\ stage = "graph_once"
    /\ proc' = optimize_graph(proc)
    /\ stage' = "graph_twice"
    /\ UNCHANGED <<prog, stack, config, collapsed_subgraphs, output, probe>>

GraphNext == graph_add_connection \/ graph_optimize \/ graph_optimize_again

GraphSpec == GraphInit /\ [][GraphNext]_vars

(***************************************************************************)
(* The collapse decision on its own: one scope with some number of nodes,  *)
(* the two lists, the size threshold and the entry point of the context.   *)
(***************************************************************************)
\* def f, class Database with a method connect
P_decision ==
    Program(<<ClassDefS("Database"), CallS("f")>>,
            [f |-> <<PassS>>],
            [Database |-> [connect |-> Method(TRUE, <<PassS>>)]])

DecisionScopes == {"main", "f", "class_Database", "class_Database_connect"}

\* What SUBGRAPH_WHITELIST and FORCE_COLLAPSE_LIST may name
DecisionNames == {"f", "Database", "Database_connect", "class_Database", "class_Database_connect"}

MaxListLen == 2

DecisionLists == {L \in SUBSET DecisionNames : Cardinality(L) <= MaxListLen}

\* File mode, a function, a class, a method (in the two ways the entry
\* processor accepts), and a function whose name starts with "class_".
DecisionContexts ==
    {FileMode, Context("function", "f", None), Context("class", None, "Database"),
     Context("class", "connect", "Database"), Context("function", "connect", "Database"),
     Context("function", "class_Database", None)}

DecisionCounts == {1, SmallSubgraphNodes + 1, MAX_SUBGRAPH_NODES + 1}

DecisionInit ==
    /\ prog = P_decision
    /\ \E scope \in DecisionScopes, context \in DecisionContexts, count \in DecisionCounts :
          /\ proc = [NewProcessor(FALSE, context) EXCEPT
                        !.node_scopes = [k \in {"n" \o ToString(i) : i \in 1..count} |-> scope]]
          /\ probe = [scope |-> scope, collapse |-> FALSE, too_large |-> FALSE]
    /\ \E whitelist \in DecisionLists, force \in DecisionLists,
          max \in {SmallSubgraphNodes, MAX_SUBGRAPH_NODES} :
          config = EnvironmentConfig(whitelist, force, max, TRUE)
    /\ stack = <<>>
    /\ stage = "decide"
    /\ collapsed_subgraphs = EmptyMap
    /\ output = NoDiagram

decide ==
    /\ stage = "decide"
    /\ probe' = [probe EXCEPT !.collapse = should_collapse(proc, config, probe.scope),
                              !.too_large = _is_subgraph_too_large(proc, config, probe.scope)]
    /\ stage' = "decided"
    /\ UNCHANGED <<prog, proc, stack, config, collapsed_subgraphs, output>>

DecisionNext == decide

DecisionSpec == DecisionInit /\ [][DecisionNext]_vars

(***************************************************************************)
(* Properties of the build                                                 *)
(***************************************************************************)
\* C1: the statement walk started by process_code terminates for every
\* source unit, recursive and mutually recursive functions and methods
\* included: generate gets past the build.
BuildTerminates == <>(stage \notin {"start", "build"})

\* A walk with mutually recursive functions has ended with the call splices
\* refused at the nesting ceiling.
BuildTerminatesWitness ==
    /\ stage = "built"
    /\ \E k \in DOMAIN proc.nodes : proc.nodes[k].text = <<"Call: (Max nesting depth exceeded)">>

\* C2: during and after the build the node map never holds more than
\* MAX_NODES entries.
NodeBudget == Cardinality(DOMAIN proc.nodes) <= MAX_NODES

\* The map is full and the walk has gone on asking for nodes.
NodeBudgetWitness ==
    /\ stage = "build"
    /\ Cardinality(DOMAIN proc.nodes) = MAX_NODES
    /\ proc.node_counter > MAX_NODES

SpliceFrames == {i \in DOMAIN stack : stack[i].kind \in {"call_body", "print_body"}}

\* C3: current_nesting_depth never exceeds MAX_NESTING_DEPTH, it is the
\* number of call splices whose callee walk has not returned yet (every
\* exit of a splice gives back what the entry took), and it is 0 when the
\* build has returned.
NestingDepthBalanced ==
    /\ proc.current_nesting_depth <= MAX_NESTING_DEPTH
    /\ stage = "build" => proc.current_nesting_depth = Cardinality(SpliceFrames)
    /\ stage \notin {"start", "build"} => proc.current_nesting_depth = 0

\* The build has returned after splices that ran into the nesting ceiling and
\* into the node budget.
NestingDepthWitness ==
    /\ stage = "built"
    /\ proc.current_nesting_depth = 0
    /\ Cardinality(DOMAIN proc.nodes) = MAX_NODES
    /\ \E k \in DOMAIN proc.nodes : proc.nodes[k].text = <<"Call: (Max nesting depth exceeded)">>

(***************************************************************************)
(* Properties of the pipeline                                              *)
(***************************************************************************)
\* C5: after the whole pipeline both ends of every emitted edge are node ids
\* the output declares.
NoDanglingEdges ==
    stage = "done" =>
        \A e \in output.edges : e.from \in output.declared /\ e.to \in output.declared

(***************************************************************************)
(* Properties of bypass elimination                                        *)
(***************************************************************************)
\* C4: running optimize_graph twice in a row leaves the same node map and
\* the same edge set (ends, label, direction) as running it once.
OptimizeIdempotent ==
    stage = "graph_twice" =>
        /\ proc.nodes = probe.once.nodes
        /\ Matches(proc) = Matches(probe.once)

\* A graph with a chain of two bypass nodes between its plain nodes went
\* through both runs: the first forwarded a's edge along the chain.
OptimizeIdempotentWitness ==
    /\ stage = "graph_twice"
    /\ [i \in DOMAIN probe.input.connections |->
           <<probe.input.connections[i].from, probe.input.connections[i].to>>]
       = << <<"a", "merge1">>, <<"merge1", "merge2">>, <<"merge2", "c">> >>
    /\ DOMAIN proc.nodes = {"a", "c"}
    /\ \E e \in Matches(proc) : e.from = "a" /\ e.to = "c"

(***************************************************************************)
(* Properties of the collapse decision                                     *)
(***************************************************************************)
Decided == stage = "decided"
InForce(name) == name \in config.force_collapse_list
InWhitelist(name) == name \in config.subgraph_whitelist
\* The scope matches a list by its class-name pattern.
PatternIn(list) == Truthy(ClassBody(probe.scope)) /\ ClassBody(probe.scope) \in list

\* C6: a scope other than main whose exact id is in the whitelist and in the
\* force-collapse list is collapsed, whatever its node count and the entry
\* point.
ForceExactBeatsWhitelistExact ==
    Decided /\ probe.scope # "main" /\ InForce(probe.scope) /\ InWhitelist(probe.scope)
        => probe.collapse = TRUE

\* The entry point f, one node, is in both lists and is collapsed.
ForceExactBeatsWhitelistExactWitness ==
    /\ Decided
    /\ probe.scope = "f" /\ proc.context.entry_name = "f"
    /\ InForce("f") /\ InWhitelist("f")
    /\ get_node_count(proc, "f") = 1
    /\ probe.collapse = TRUE

\* C7: a scope whose exact id is in the whitelist and not in the
\* force-collapse list is not collapsed, also when the force-collapse list
\* has its class name and when it has more nodes than max_subgraph_nodes.
WhitelistExactBeatsForcePattern ==
    Decided /\ InWhitelist(probe.scope) /\ ~InForce(probe.scope)
        => probe.collapse = FALSE

\* class_Database is whitelisted, "Database" is to be collapsed, and the
\* scope is over the threshold.
WhitelistExactBeatsForcePatternWitness ==
    /\ Decided
    /\ probe.scope = "class_Database"
    /\ InWhitelist("class_Database") /\ ~InForce("class_Database") /\ InForce("Database")
    /\ get_node_count(proc, "class_Database") > config.max_subgraph_nodes
    /\ probe.collapse = FALSE

PatternTie ==
    /\ Decided
    /\ PatternIn(config.force_collapse_list) /\ PatternIn(config.subgraph_whitelist)
    /\ ~InForce(probe.scope) /\ ~InWhitelist(probe.scope)

\* C9 as stated: a scope that matches both lists by pattern only is not
\* collapsed (whitelist wins).
PatternTieWhitelistWins == PatternTie => probe.collapse = FALSE

\* C9: a scope that matches both lists by pattern only is collapsed
\* (force-collapse wins), unless its id is the entry name: then it is not.
PatternTieForceWins ==
    PatternTie => probe.collapse = (probe.scope # proc.context.entry_name)

\* The method scope class_Database_connect in file mode, both lists holding
\* "Database_connect".
PatternTieForceWinsWitness ==
    /\ PatternTie
    /\ probe.scope = "class_Database_connect"
    /\ proc.context = FileMode
    /\ probe.collapse = TRUE

\* The scope the entry point of a context gets its nodes in
EntryScope(context) ==
    IF Truthy(context.entry_class)
    THEN IF Truthy(context.entry_name)
         THEN MethodScope(context.entry_class, context.entry_name)
         ELSE ClassScope(context.entry_class)
    ELSE context.entry_name

\* C10: the scope of the entry point, be it a function, a class or a method,
\* is not collapsed unless its exact id is in the force-collapse list.
EntryPointProtected ==
    Decided /\ Truthy(EntryScope(proc.context)) /\ probe.scope = EntryScope(proc.context)
            /\ ~InForce(probe.scope)
        => probe.collapse = FALSE

(***************************************************************************)
(* Properties of collapsing                                                *)
(***************************************************************************)
AfterPreprocess == stage \in {"preprocessed", "optimized", "redirected", "pruned"}

\* None of the rules ahead of the size rule speaks about the scope: it is not
\* main, neither list has its id or its class-name pattern, and it is not the
\* entry point.
NoRuleApplies(scope) ==
    /\ scope # "main"
    /\ scope \notin config.force_collapse_list \cup config.subgraph_whitelist
    /\ ClassBody(scope) \notin config.force_collapse_list \cup config.subgraph_whitelist
    /\ scope # proc.context.entry_name
    /\ scope # EntryScope(proc.context)

\* C11: a scope no whitelist, force-collapse or entry-point rule speaks about
\* is collapsed exactly when more than max_subgraph_nodes nodes have it as
\* their scope, and the metadata and the placeholder of the collapsed scope
\* carry that number.
SizeRule ==
    /\ AfterPreprocess =>
          \A x \in ScopesOf(proc) : NoRuleApplies(x) =>
              /\ x \in DOMAIN collapsed_subgraphs
                    <=> get_node_count(proc, x) > config.max_subgraph_nodes
              /\ x \in DOMAIN collapsed_subgraphs =>
                    /\ collapsed_subgraphs[x].node_count = get_node_count(proc, x)
                    /\ collapsed_subgraphs[x].collapsed_node_id
                          = CollapsedNodeId(x, get_node_count(proc, x))
    /\ stage = "done" /\ output # ErrorDiagram =>
          output.declared \ DOMAIN proc.nodes
              \subseteq {CollapsedNodeId(x, get_node_count(proc, x)) :
                             x \in DOMAIN collapsed_subgraphs}

\* With empty lists and threshold 3 a function scope of four nodes went into
\* one placeholder that reports 4, and a scope of three nodes stayed.
SizeRuleWitness ==
    /\ stage = "done"
    /\ config.force_collapse_list = {} /\ config.subgraph_whitelist = {}
    /\ \E x \in DOMAIN collapsed_subgraphs :
          /\ NoRuleApplies(x)
          /\ get_node_count(proc, x) = config.max_subgraph_nodes + 1
          /\ collapsed_subgraphs[x].node_count = config.max_subgraph_nodes + 1
          /\ CollapsedNodeId(x, config.max_subgraph_nodes + 1) \in output.declared
    /\ \E y \in ScopesOf(proc) \ DOMAIN collapsed_subgraphs :
          y # "main" /\ get_node_count(proc, y) = config.max_subgraph_nodes

\* generate has returned the diagram of a completed pipeline.
Completed == stage = "done" /\ output # ErrorDiagram

\* C12: when a scope is collapsed, the nodes of all its descendant scopes
\* (children in scope_children, transitively, and the method scopes of a
\* class scope) are in its absorbed set and out of the node map, and the
\* diagram has no subgraph block of their own for any of these scopes.
CollapseAbsorbsDescendants ==
    /\ AfterPreprocess \/ Completed =>
          \A x \in DOMAIN collapsed_subgraphs :
              \A y \in Descendants(proc, {x}, {}) :
                  /\ NodesOf(proc, y) \subseteq collapsed_subgraphs[x].scope_nodes
                  /\ NodesOf(proc, y) \cap DOMAIN proc.nodes = {}
    /\ Completed =>
          \A x \in DOMAIN collapsed_subgraphs :
              \A y \in Descendants(proc, {x}, {}) \ {x} : y \notin output.regions

\* C13: in the diagram of a completed pipeline a scope the metadata reports
\* as expanded has none of its nodes in the absorbed set of any collapsed
\* scope, and a scope it reports as collapsed has all of its nodes in the
\* absorbed set of its own placeholder and of no other.
ExpandedOrCollapsed ==
    Completed =>
        /\ \A x \in DOMAIN output.metadata.expanded_subgraphs :
              \A c \in DOMAIN output.metadata.collapsed_subgraphs :
                  output.metadata.expanded_subgraphs[x].scope_nodes
                      \cap output.metadata.collapsed_subgraphs[c].scope_nodes = {}
        /\ \A x \in DOMAIN output.metadata.collapsed_subgraphs :
              /\ NodesOf(proc, x) \subseteq output.metadata.collapsed_subgraphs[x].scope_nodes
              /\ \A c \in DOMAIN output.metadata.collapsed_subgraphs \ {x} :
                    NodesOf(proc, x) \cap output.metadata.collapsed_subgraphs[c].scope_nodes = {}

(***************************************************************************)
(* Properties of edge redirection                                          *)
(***************************************************************************)
\* The step of redirect_connections
RedirectStep == stage = "optimized" /\ stage' = "redirected"

\* What stands for a node after the collapse: the node itself when no
\* collapsed scope absorbed it, else the placeholder of a scope that did.
Representatives(node_id) ==
    LET absorbed_by == {x \in DOMAIN collapsed_subgraphs :
                            node_id \in collapsed_subgraphs[x].scope_nodes}
    IN IF absorbed_by = {} THEN {node_id}
       ELSE {collapsed_subgraphs[x].collapsed_node_id : x \in absorbed_by}

\* C14: redirect_connections turns every edge with exactly one end in the
\* absorbed set of a collapsed scope into an edge at the placeholder of that
\* scope, with the label and the direction kept, the other end being the
\* node itself or, when another collapsed scope absorbed it, that scope's
\* placeholder; it leaves no edge inside an absorbed set; and no two of the
\* edges at placeholders agree on (from, to, label).
BoundaryEdgesRewritten ==
    [][RedirectStep =>
        /\ \A x \in DOMAIN collapsed_subgraphs :
              LET S == collapsed_subgraphs[x].scope_nodes
                  ph == collapsed_subgraphs[x].collapsed_node_id
              IN /\ \A m \in Matches(proc) :
                        /\ m.from \notin S /\ m.to \in S =>
                              \E e \in Matches(proc') :
                                  /\ e.to = ph /\ e.from \in Representatives(m.from)
                                  /\ e.label = m.label /\ e.bidirectional = m.bidirectional
                        /\ m.from \in S /\ m.to \notin S =>
                              \E e \in Matches(proc') :
                                  /\ e.from = ph /\ e.to \in Representatives(m.to)
                                  /\ e.label = m.label /\ e.bidirectional = m.bidirectional
                 /\ \A e \in Matches(proc') :
                        ~(e.from \in S \cup {ph} /\ e.to \in S \cup {ph})
        /\ \A i, j \in DOMAIN proc'.connections :
              LET c == proc'.connections[i]
                  d == proc'.connections[j]
                  placeholders == {collapsed_subgraphs[x].collapsed_node_id :
                                       x \in DOMAIN collapsed_subgraphs}
              IN i # j /\ {c.from, c.to} \cap placeholders # {}
                       /\ c.from = d.from /\ c.to = d.to /\ c.label = d.label
                 => FALSE
    ]_vars

(***************************************************************************)
(* Method subgraphs (ClassHandler._create_method_subgraph)                 *)
(***************************************************************************)
Building == stage \in {"build", "built"}

\* The (class, method) pairs a method subgraph has been recorded for.
RecordedMethods ==
    {cm \in UNION {{<<c, m>> : m \in DOMAIN prog.class_defs[c]} : c \in DOMAIN prog.class_defs} :
        MethodKey(cm[1], cm[2]) \in DOMAIN proc.method_subgraphs}

\* The nodes a method call has been handled at: those whose call has
\* returned, and those whose method body is being walked.
CallSites ==
    DOMAIN proc.method_last_nodes
        \cup {stack[i].a : i \in {j \in DOMAIN stack : stack[j].kind = "method_body"}}

\* The edges from a call site to a method entry node.
CallEdgesFrom(c) ==
    {i \in DOMAIN proc.connections :
        /\ proc.connections[i].from = c
        /\ proc.connections[i].to \in {proc.method_subgraphs[x] : x \in DOMAIN proc.method_subgraphs}
        /\ proc.connections[i].label \in {"Call", "Call and Return"}}

\* The entry nodes the node map holds for a method.
EntryNodes(class_name, method_name) ==
    {n \in DOMAIN proc.nodes :
        /\ proc.node_scopes[n] = MethodScope(class_name, method_name)
        /\ proc.nodes[n].text = <<MethodText(method_name)>>}

\* This step starts the walk of a method body: the list frame of the body is
\* new on top of the frame of _create_method_subgraph.
MethodWalkStarts ==
    /\ stage = "build" /\ stage' = "build"
    /\ stack' # stack
    /\ Len(stack') >= 2
    /\ stack'[Len(stack')].kind = "list"
    /\ stack'[Len(stack')].idx = 1
    /\ stack'[Len(stack') - 1].kind = "method_body"

\* C15: for every (class, method) pair, whatever the call sites that resolve
\* to it (a call from inside the method's own body included), the body is
\* walked at most once (a walk starts only for a pair not yet recorded, and a
\* recorded pair stays recorded) and exactly one entry node exists; every
\* call site has exactly one edge to the entry node, "<-->" labelled "Call and
\* Return" in default mode and "-->" labelled "Call" in sequential-flow mode,
\* where no "<-->" edge exists at all.
MethodWalkedOnce ==
    [][ /\ MethodWalkStarts =>
            \A cm \in RecordedMethods' :
                MethodScope(cm[1], cm[2]) = stack'[Len(stack')].scope => cm \notin RecordedMethods
        /\ Building /\ Building' => RecordedMethods \subseteq RecordedMethods'
        /\ Building' =>
            /\ \A cm \in RecordedMethods' :
                  /\ Cardinality(EntryNodes(cm[1], cm[2])') = 1
                  /\ EntryNodes(cm[1], cm[2])' = {proc'.method_subgraphs[MethodKey(cm[1], cm[2])]}
            /\ \A c \in CallSites' :
                  /\ Cardinality(CallEdgesFrom(c)') = 1
                  /\ \A i \in CallEdgesFrom(c)' :
                        IF proc'.sequential_flow
                        THEN proc'.connections[i].arrow = "-->" /\ proc'.connections[i].label = "Call"
                        ELSE proc'.connections[i].arrow = "<-->"
                             /\ proc'.connections[i].label = "Call and Return"
            /\ proc'.sequential_flow =>
                  \A i \in DOMAIN proc'.connections : proc'.connections[i].arrow = "-->"
      ]_vars

(***************************************************************************)
(* The recursion guard                                                     *)
(***************************************************************************)
\* The plain function whose body the innermost loop is in: the callee of the
\* innermost splice, None in the module body and in a method body.
WalkedFunction ==
    LET calls == {j \in DOMAIN stack : stack[j].kind \in {"call_body", "print_body", "method_body"}}
    IN IF calls = {} THEN None
       ELSE LET k == stack[CHOOSE j \in calls : \A i \in calls : i <= j]
            IN CASE k.kind = "call_body" -> k.st.name
                 [] k.kind = "print_body" -> k.st.args[k.idx]
                 [] OTHER -> None

\* node calls the plain function f as an expression statement, as the value
\* of an assignment, as the value of a return, or in the arguments of print.
CallsFunction(node, f) ==
    \/ node.k \in {"call", "assigncall", "returncall"} /\ node.name = f
    \/ node.k = "print" /\ \E i \in DOMAIN node.args : node.args[i] = f

\* This step handles a statement of f's body that calls f.
SelfCallStep ==
    /\ AtHandled(ExprKinds \cup AssignKinds \cup ReturnKinds)
    /\ WalkedFunction # None
    /\ CallsFunction(Node, WalkedFunction)
    /\ proc' # proc

RecursionEdgesAdded ==
    {i \in DOMAIN proc'.connections :
        i > Len(proc.connections) /\ proc'.connections[i].label = "Recursion"}

\* C16: a direct self-call of a plain function f reached in f's own body, in
\* any of the four statement positions, starts no walk of the body; it adds
\* exactly one edge labelled "Recursion", from the node of the call to the
\* node recorded as the first node of f.
SelfCallNotRewalked ==
    [][SelfCallStep =>
          /\ Len(stack') = Len(stack)
          /\ Cardinality(RecursionEdgesAdded) = 1
          /\ \A i \in RecursionEdgesAdded :
                /\ proc'.connections[i].from \in DOMAIN proc'.nodes \ DOMAIN proc.nodes
                /\ WalkedFunction \in DOMAIN proc.function_start_nodes
                /\ proc'.connections[i].to = proc.function_start_nodes[WalkedFunction]
      ]_vars

(***************************************************************************)
(* Error nodes of the method call handlers                                 *)
(***************************************************************************)
NodesAdded == DOMAIN proc'.nodes \ DOMAIN proc.nodes

ErrorNodesAdded(error_text) ==
    {n \in NodesAdded : proc'.nodes[n].shape = SHAPES.exception /\ proc'.nodes[n].text = <<error_text>>}

EdgeAdded(from_id, to_id) ==
    \E i \in DOMAIN proc'.connections :
        /\ i > Len(proc.connections)
        /\ proc'.connections[i].from = from_id
        /\ proc'.connections[i].to = to_id

\* This step handles a method call, as an expression statement or as the
\* value of an assignment, whose receiver resolves to a class of the program
\* that has no method of that name.
MissingMethodStep ==
    /\ AtHandled({"mcall", "massign"})
    /\ ResolveReceiver(proc, Node.recv, Top.scope) \in ClassNames
    /\ ~HasMethod(ResolveReceiver(proc, Node.recv, Top.scope), Node.name)
    /\ proc' # proc

\* C17: a method call on a known class that lacks the method adds exactly one
\* error node and an edge from the call node to it; the error node is the
\* current node the next statement of the same list is chained from, and the
\* build goes on.
MissingMethodError ==
    [][MissingMethodStep =>
          /\ Cardinality(ErrorNodesAdded(MethodNotFoundError)) = 1
          /\ \A e \in ErrorNodesAdded(MethodNotFoundError) :
                /\ Cardinality(NodesAdded) = 2
                /\ \A c \in NodesAdded \ {e} : EdgeAdded(c, e)
                /\ Len(stack') = Len(stack)
                /\ stack'[Len(stack')].cur = e
                /\ stack'[Len(stack')].idx = Top.idx + 1
                /\ stack'[Len(stack')].stmts = Top.stmts
          /\ stage' = "build"
      ]_vars

\* This step handles a method call, as an expression statement or as the
\* value of an assignment, whose receiver is the name of a class that has the
\* method.
ClassReceiverStep ==
    /\ AtHandled({"mcall", "massign"})
    /\ HasMethod(Node.recv, Node.name)
    /\ proc' # proc

\* The designated entry point of the diagram is the class class_name.
EntryPointIsClass(class_name) ==
    proc.context.entry_type = "class" /\ proc.context.entry_class = class_name

\* C18: a method call on a bare class name gets the "instance method called
\* without instantiation" error node exactly when the first parameter of the
\* method is self and the entry point is not that class, for the expression
\* statement and for the assignment alike.
ClassReceiverRule ==
    [][ClassReceiverStep =>
          (ErrorNodesAdded(InstanceMethodError) # {}
              <=> /\ prog.class_defs[Node.recv][Node.name].self
                  /\ ~EntryPointIsClass(Node.recv))
      ]_vars

(***************************************************************************)
(* FlowchartGenerator.generate: the result                                 *)
(***************************************************************************)
\* The source does not parse, or the stage that is next raises.
StageFails ==
    \/ stage = "start" /\ ~prog.parses
    \/ stage = "built" /\ \E x \in ToCollapse(proc, config) : ~CollectTerminates(proc, x)
    \/ stage = "optimized" /\ RedirectRaises(proc, collapsed_subgraphs)

TerminatingKinds == ReturnKinds \cup {"raise", "break", "continue", "exit"}

\* This step is the whole handling of a terminating statement of the
\* innermost list.
TerminatorHandled ==
    /\ AtHandled(TerminatingKinds)
    /\ stack' # stack
    /\ Len(stack') = Len(stack)

\* This step is the rest of the handling of `return o.m()` after the walk of
\* the method body.
ReturnCallHandled ==
    /\ Returned("method_body")
    /\ Below.ret = "return"
    /\ stack' # stack
    /\ Len(stack') = Len(stack) - 2

\* The loop over the list of frame fr has stopped: no statement is left.
LoopStopped(fr_after, fr) ==
    /\ fr_after.stmts = fr.stmts
    /\ fr_after.idx = Len(fr.stmts) + 1

\* C20: once a return, raise, break, continue or exit call of a statement
\* list has been handled, the result of the handler is None: the loop over
\* that list stops, and no later statement of the list is handled.
TerminatorEndsList ==
    [][ /\ TerminatorHandled => LoopStopped(stack'[Len(stack')], Top)
        /\ ReturnCallHandled => LoopStopped(stack'[Len(stack')], stack[Len(stack) - 2])
      ]_vars

(***************************************************************************)
(* Where a return statement is connected                                   *)
(***************************************************************************)
\* This step is the whole handling of a `return` without a call in its value.
PlainReturnStep ==
    /\ AtHandled({"return"})
    /\ proc' # proc

\* The id the handler of this step gives to its return node.
ReturnId == "return" \o ToString(proc.node_counter + 1)

\* The return statement of this step is in the body of a method that was
\* entered from a call site.
ReturnInCalledMethod ==
    /\ IsMethodScope(Top.scope)
    /\ Top.scope \in DOMAIN proc.method_calling_nodes

ReturnInFunctionSplice ==
    /\ ~IsMethodScope(Top.scope)
    /\ proc.call_stack # <<>>

ReturnAtTopLevel ==
    /\ ~IsMethodScope(Top.scope)
    /\ proc.call_stack = <<>>

\* C21: a return statement handled in a method scope adds an edge from the
\* return node to the node that called the method; in a function splice the
\* edge goes to the return target on top of the call stack, and at top level
\* to the end node.
ReturnConnectsBack ==
    [][ PlainReturnStep =>
          /\ ReturnInCalledMethod => EdgeAdded(ReturnId, proc.method_calling_nodes[Top.scope])
          /\ ReturnInFunctionSplice => EdgeAdded(ReturnId, Last(proc.call_stack))
          /\ ReturnAtTopLevel => EdgeAdded(ReturnId, proc.end_id)
      ]_vars

\* The two cases of C21 outside method scopes.
ReturnOutsideMethods ==
    [][ PlainReturnStep =>
          /\ ReturnInFunctionSplice => EdgeAdded(ReturnId, Last(proc.call_stack))
          /\ ReturnAtTopLevel => EdgeAdded(ReturnId, proc.end_id)
      ]_vars

(***************************************************************************)
(* The edges a loop handler adds after the walk of the body                *)
(***************************************************************************)
\* This step is the rest of a for or while handler after its body.
LoopBodyReturned == Returned("for_body") \/ Returned("while_body")

\* The edges this step adds.
NewEdges == {proc'.connections[i] : i \in Len(proc.connections) + 1 .. Len(proc'.connections)}
NewEdgeCount == Len(proc'.connections) - Len(proc.connections)

\* The body left a live exit node other than the condition node.
LiveBodyExit(body_end_id, loop_cond_id) == Truthy(body_end_id) /\ body_end_id # loop_cond_id

NextIterationInto(loop_cond_id) ==
    {e \in NewEdges : e.label = "Next Iteration" /\ e.to = loop_cond_id}

\* The edges of this step are the Done edge and, with a live body exit, the
\* Next Iteration edge from it.
LoopEdges(body_end_id, loop_cond_id, loop_exit_id) ==
    /\ NextIterationInto(loop_cond_id) =
          IF LiveBodyExit(body_end_id, loop_cond_id)
          THEN {FormatConn(4, body_end_id, "-->", "Next Iteration", loop_cond_id)}
          ELSE {}
    /\ \A e \in NewEdges : ~(e.from = loop_cond_id /\ e.to = loop_cond_id)
    /\ FormatConn(4, loop_cond_id, "-->", "Done", loop_exit_id) \in NewEdges
    /\ NewEdgeCount = Cardinality(NextIterationInto(loop_cond_id)) + 1

\* C22: for both for and while loops, the Next Iteration edge into the
\* condition node comes only from a live body exit that differs from the
\* condition node; with a dead or hidden body there is none, and no self-loop
\* on the condition node; in every case exactly one Done edge from the
\* condition node to the loop exit is added.
LoopBackEdges ==
    [][ LoopBodyReturned => LoopEdges(Top.cur, Below.a, Below.b) ]_vars

\* The same for the for loop alone.
ForLoopBackEdges ==
    [][ Returned("for_body") => LoopEdges(Top.cur, Below.a, Below.b) ]_vars

(***************************************************************************)
(* What bypass elimination leaves of the bypass nodes                      *)
(***************************************************************************)
Optimized == stage = "graph_once"

\* The bypass nodes of the graph optimize_graph was given, and the target of
\* the last connection out of each.
InputBypassNodes == BypassNodes(probe.input)
InputForwarding == BuildForwarding(probe.input.connections, InputBypassNodes, 1, EmptyMap, <<>>).fm

\* The first node that is no bypass node on the forwarding chain from n, None
\* when the chain ends in a bypass node without outgoing edge or runs in a
\* cycle.
RECURSIVE ChainEnd(_, _)
ChainEnd(n, fuel) ==
    IF n \notin InputBypassNodes THEN n
    ELSE IF n \notin DOMAIN InputForwarding \/ fuel = 0 THEN None
    ELSE ChainEnd(InputForwarding[n], fuel - 1)

FirstPlainNode == [b \in InputBypassNodes |-> ChainEnd(b, Cardinality(InputBypassNodes))]

AllChainsEnd == \A b \in InputBypassNodes : FirstPlainNode[b] # None

NoBypassLeft ==
    /\ DOMAIN proc.nodes \cap InputBypassNodes = {}
    /\ BypassNodes(proc) = {}

NoEdgeAtBypass ==
    \A i \in DOMAIN proc.connections :
        /\ proc.connections[i].from \notin InputBypassNodes
        /\ proc.connections[i].to \notin InputBypassNodes

\* The edges left are the edges out of plain nodes, in their order, with
\* label and direction, each edge into a bypass node moved to the first plain
\* node of its chain.
EdgesForwarded ==
    proc.connections = Rebuild(probe.input.connections, InputBypassNodes, FirstPlainNode, 1)

\* C23: after optimize_graph on any graph no bypass node is left in the node
\* map and no edge starts or ends at a bypass node: every edge into a bypass
\* node goes to the first node that is no bypass node on the forwarding
\* chain, with its label and direction, whatever the forwarding map, cycles
\* of bypass nodes and bypass nodes without outgoing edge included.
BypassEliminated ==
    Optimized =>
        /\ NoBypassLeft
        /\ NoEdgeAtBypass
        /\ AllChainsEnd => EdgesForwarded

\* The same on the graphs in which every forwarding chain reaches a node that
\* is no bypass node.
BypassEliminatedOnEndingChains ==
    Optimized /\ AllChainsEnd => NoBypassLeft /\ NoEdgeAtBypass /\ EdgesForwarded

(***************************************************************************)
(* Which nodes pruning deletes                                             *)
(***************************************************************************)
\* This step is prune_unreferenced_nodes with pruning enabled.
PruneStep ==
    /\ stage = "redirected"
    /\ stage' = "pruned"
    /\ config.prune_unused_nodes

\* The ends of the connections, of every arrow or of the one-way arrows only.
EdgeEndpoints(p) ==
    UNION {{p.connections[i].from, p.connections[i].to} : i \in DOMAIN p.connections}
OneWayEndpoints(p) ==
    UNION {{p.connections[i].from, p.connections[i].to} :
              i \in {j \in DOMAIN p.connections : p.connections[j].arrow = "-->"}}

\* C24: with pruning enabled, prune_unreferenced_nodes deletes exactly the
\* nodes that are at no end of any edge, one-way or bidirectional; a node at
\* an end of some edge is never deleted, and the end node is never deleted.
PruneKeepsReferenced ==
    [][ PruneStep =>
          /\ DOMAIN proc'.nodes = DOMAIN proc.nodes \cap (EdgeEndpoints(proc) \cup {proc.end_id})
          /\ proc'.connections = proc.connections
      ]_vars

\* The same with the one-way edges as the only references.
PruneKeepsOneWayReferenced ==
    [][ PruneStep =>
          /\ DOMAIN proc'.nodes = DOMAIN proc.nodes \cap (OneWayEndpoints(proc) \cup {proc.end_id})
          /\ proc'.connections = proc.connections
      ]_vars

(***************************************************************************)
(* A refused node                                                          *)
(***************************************************************************)
\* This step hands the current statement to its handler.
StatementHandled ==
    /\ AtStmt
    /\ AtHandled({Node.k})
    /\ stack' # stack

\* The handler of this step asks for a node while the node map is full.
NodeRefusedStep ==
    /\ StatementHandled
    /\ Cardinality(DOMAIN proc.nodes) >= MAX_NODES
    /\ proc'.node_counter > proc.node_counter

\* Some node creation of the build has been refused: every id generated so
\* far got a node until the map was full.
NodeRefused == stage = "build" /\ proc.node_counter > MAX_NODES

MaxNodesEdge(current_id) == FormatConn(4, current_id, "-->", MaxNodeLimitLabel, proc.end_id)

RefusalRedirected ==
    /\ \A e \in NewEdges : e.to \in DOMAIN proc.nodes
    /\ NewEdges = {MaxNodesEdge(Top.cur)}
    /\ NewEdgeCount = 1

\* C25: when the node of a handler is refused because the map holds
\* MAX_NODES nodes, no edge to the refused id is added, one edge from the
\* current node to the end node with the max-node-limit label is added, and
\* no statement is handled any more in the build, whatever the kind of the
\* statement.
RefusalHaltsBuild ==
    [][ /\ NodeRefusedStep => RefusalRedirected
        /\ NodeRefused => ~StatementHandled
      ]_vars

\* The same for the handler of a plain expression statement in a nested
\* statement list, and that list alone.
ExprRefusalStopsList ==
    [][ NodeRefusedStep /\ Node.k \in {"expr", "doc"} /\ Top.kind = "list" =>
            RefusalRedirected /\ LoopStopped(stack'[Len(stack')], Top)
      ]_vars

(***************************************************************************)
(* Which statements are merged into the previous node                      *)
(***************************************************************************)
\* This step merges the current statement into the node before it: no id is
\* generated and the text of the statement is appended to that node.
MergedStep ==
    /\ StatementHandled
    /\ proc.merge_common_nodes
    /\ proc'.node_counter = proc.node_counter
    /\ Top.cur \in DOMAIN proc.nodes
    /\ proc'.nodes[Top.cur].text = Append(proc.nodes[Top.cur].text, Node.text)

\* A print call, or a plain or augmented assignment without a call in its
\* value.
SimpleStatement(node) == node.k \in {"print", "assign", "augassign"}

\* A print with a call of a function of the program among its arguments.
PrintOfKnownCall(node) ==
    /\ node.k = "print"
    /\ \E i \in DOMAIN node.args : node.args[i] \in DOMAIN prog.function_defs

CallNodesAdded == {n \in NodesAdded : proc'.nodes[n].shape = SHAPES.function_call}

\* C26: with merge_common_nodes on, a statement is merged into the previous
\* node only when it is a print call or a plain or augmented assignment
\* without a call in its value; an assignment from a call, of a known or an
\* unknown function, is never merged, and a print whose argument calls a
\* known function has that call spliced.
MergeOnlySimple ==
    [][ /\ MergedStep => SimpleStatement(Node) /\ Node.k # "assigncall"
        /\ StatementHandled /\ PrintOfKnownCall(Node)
              /\ Cardinality(DOMAIN proc.nodes) < MAX_NODES => CallNodesAdded # {}
      ]_vars

\* An assignment from a call of a function of the program is never merged.
KnownCallAssignmentNotMerged ==
    [][ MergedStep /\ Node.k = "assigncall" => Node.name \notin DOMAIN prog.function_defs ]_vars

(***************************************************************************)
(* Node ids                                                                *)
(***************************************************************************)
\* The number of calls of _generate_id in this step.
IdsGenerated == proc'.node_counter - proc.node_counter

\* Every id the build has generated so far is a key of the node map: no
\* node has been refused.
AllIdsAreNodes == Cardinality(DOMAIN proc.nodes) = proc.node_counter

\* C27: within one build no two calls of _generate_id give the same id,
\* whatever the prefixes, names that end in digits included: while no node is
\* refused, every id generated in a step is a new key of the node map.
GeneratedIdsUnique ==
    [][ /\ stage = "build"
        /\ AllIdsAreNodes
        /\ proc'.node_counter <= MAX_NODES
        => Cardinality(NodesAdded) = IdsGenerated
      ]_vars

(***************************************************************************)
(* The shape of scope_children                                             *)
(***************************************************************************)
ChildrenOf(scope) == Get(proc.scope_children, scope, {})
ParentsOf(scope) == {x \in DOMAIN proc.scope_children : scope \in proc.scope_children[x]}
NestingScopes ==
    DOMAIN proc.scope_children \cup UNION {proc.scope_children[x] : x \in DOMAIN proc.scope_children}

\* The scopes below the scopes of `from` in scope_children.
RECURSIVE ScopesBelow(_, _)
ScopesBelow(from, seen) ==
    LET next == UNION {ChildrenOf(x) : x \in from} \ seen
    IN IF next = {} THEN seen ELSE ScopesBelow(next, seen \cup next)

\* C28: for every program, two functions that call each other and a
\* function called from several scopes included, scope_children is a forest:
\* no scope is below itself and every scope has at most one parent.
ScopeChildrenForest ==
    \A scope \in NestingScopes :
        /\ scope \notin ScopesBelow({scope}, {})
        /\ Cardinality(ParentsOf(scope)) <= 1

\* No scope is its own child.
NoScopeItsOwnChild == \A scope \in NestingScopes : scope \notin ChildrenOf(scope)

(***************************************************************************)
(* loop_stack and call_stack against the handlers that are running         *)
(***************************************************************************)
\* The handlers of the walk that wait for the body of a loop, and those that
\* wait for the body of a spliced function, outermost first.
OpenLoops == SelectSeq(stack, LAMBDA fr : fr.kind \in {"for_body", "while_body"})
OpenSplices == SelectSeq(stack, LAMBDA fr : fr.kind \in {"call_body", "print_body"})

\* C29: at every handler boundary of the build loop_stack holds exactly the
\* frames of the loop handlers that have not returned and call_stack exactly
\* the return targets of the splices that have not returned, in their order,
\* so a handler that returns leaves both as they were before its call (each
\* push is matched by one pop on every path); current_nesting_depth is the
\* length of call_stack.
StacksBalanced ==
    stage = "build" =>
        /\ proc.loop_stack = [i \in 1..Len(OpenLoops) |->
                                 [start |-> OpenLoops[i].a, exit |-> OpenLoops[i].b]]
        /\ proc.call_stack = [i \in 1..Len(OpenSplices) |-> OpenSplices[i].a]
        /\ proc.current_nesting_depth = Len(proc.call_stack)

\* The walk is in the body of a loop of a function spliced into the body of
\* a loop, right after the handler of an if statement with a break returned.
StacksBalancedWitness ==
    /\ AtStmt
    /\ Top.idx > 1
    /\ Top.stmts[Top.idx - 1].k = "if"
    /\ Len(proc.loop_stack) = 2
    /\ Len(proc.call_stack) = 1
    /\ Len(OpenLoops) = 2

(***************************************************************************)
(* Termination of the collection of nested nodes                           *)
(***************************************************************************)
\* C30: collapse preprocessing terminates for every scope_children map the
\* build leaves: _collect_nested_nodes, which follows the children without a
\* visited set, returns for every scope that is collapsed, also when two
\* functions call each other and one of them is collapsed.
CollectNestedNodesReturns ==
    stage = "built" => \A scope \in ToCollapse(proc, config) : CollectTerminates(proc, scope)

\* The same for the maps in which no scope is below itself.
CollectReturnsOnForest ==
    stage = "built" /\ (\A scope \in NestingScopes : scope \notin ScopesBelow({scope}, {}))
                    /\ (\A c \in ClassNames, m \in MethodNames :
                            MethodScope(c, m) \notin DOMAIN proc.scope_children)
        => \A scope \in ToCollapse(proc, config) : CollectTerminates(proc, scope)

====
